---- MODULE Spec2Model ----
(***************************************************************************)
(* Model of tbltalk (src/tbltalk/tbltalk.py, src/tbltalk/dbdialect.py):    *)
(* the placeholder generator, the statement builders and the dynamic       *)
(* query resolver of one DbTable bound to one DbEngine (Spec), and the     *)
(* operations that reach the database through DbEngine.cursor: calls on    *)
(* undefined names, insert, save and the lazy query (SpecEngine).  Paging  *)
(* has a specification of its own (SpecPaged), as have the dialects and    *)
(* their lower-case form (SpecDialect), the shared connection of the       *)
(* engine (SpecShared) and the rows of src/tbltalk/dbrow.py (SpecRow).     *)
(*                                                                         *)
(* Text is a sequence of lexemes.  The literal pieces of a template and    *)
(* the dialect keywords are one lexeme each; names supplied by the caller  *)
(* (field names, keyword names, method names) are spelled character by     *)
(* character, so that `';' in name`, str.lower() and str.startswith() are  *)
(* computed on the characters as the code computes them.                   *)
(***************************************************************************)
EXTENDS Integers, Sequences, FiniteSets, TLC

VARIABLES pk_field, pk_autonumber, paramstyle, dialect, call, ret, executed,
          shared, lent, con, log, table, returned, cause, gen, row, hist

vars == <<pk_field, pk_autonumber, paramstyle, dialect, call, ret, executed,
          shared, lent, con, log, table, returned, cause, gen, row, hist>>

(***************************************************************************)
(* Bounds of the model.                                                    *)
(***************************************************************************)
MaxFields == 3
MaxKwargs == 2
MaxIndex == 2
MaxRows == 2
MaxSave == 2
MaxPageSize == 2
MaxPage == 3
MaxOps == 3

(***************************************************************************)
(* Python values: None, int, str, tuple and list, in one record shape.     *)
(***************************************************************************)
PyNone == [t |-> "none", i |-> 0, s |-> <<>>, q |-> <<>>]
PyInt(n) == [t |-> "int", i |-> n, s |-> <<>>, q |-> <<>>]
PyStr(x) == [t |-> "str", i |-> 0, s |-> x, q |-> <<>>]
PyTuple(xs) == [t |-> "tuple", i |-> 0, s |-> <<>>, q |-> xs]
PyList(xs) == [t |-> "list", i |-> 0, s |-> <<>>, q |-> xs]
\* A dict (a DotDict too) is the sequence of its (key, value) items.
PyDict(items) == [t |-> "dict", i |-> 0, s |-> <<>>, q |-> items]
PyBool(b) == [t |-> "bool", i |-> IF b THEN 1 ELSE 0, s |-> <<>>, q |-> <<>>]

\* Python truthiness: bool(v).
Truthy(v) ==
    CASE v.t = "none" -> FALSE
      [] v.t = "int" -> v.i # 0
      [] v.t = "bool" -> v.i # 0
      [] v.t = "str" -> v.s # <<>>
      [] OTHER -> v.q # <<>>

\* IsInt taking None for an int too.
IsInt_or_none(v) == v.t \in {"int", "bool", "none"}

\* isinstance(v, int): bool is a subclass of int.
IsInt(v) == v.t \in {"int", "bool"}

\* str.lower() on one character, for the letters the model spells names with.
LowerChar(c) ==
    CASE c = "I" -> "i"
      [] c = "D" -> "d"
      [] c = "A" -> "a"
      [] c = "W" -> "w"
      [] OTHER -> c

\* str.lower().
Lower(x) == [k \in 1..Len(x) |-> LowerChar(x[k])]

\* x.startswith(p).
StartsWith(x, p) == Len(p) <= Len(x) /\ SubSeq(x, 1, Len(p)) = p

\* `c in x` for a one-character c.
Contains(x, c) == \E k \in 1..Len(x) : x[k] = c

DigitChar(d) ==
    CASE d = 0 -> "0" [] d = 1 -> "1" [] d = 2 -> "2" [] d = 3 -> "3"
      [] d = 4 -> "4" [] d = 5 -> "5" [] d = 6 -> "6" [] d = 7 -> "7"
      [] d = 8 -> "8" [] OTHER -> "9"

RECURSIVE NatDigits(_)
NatDigits(n) == IF n < 10 THEN <<DigitChar(n)>>
                ELSE Append(NatDigits(n \div 10), DigitChar(n % 10))

\* str(n) for an int.
IntStr(n) == IF n < 0 THEN <<"-">> \o NatDigits(0 - n) ELSE NatDigits(n)

\* str(v), as "{}".format(v) and an f-string render a value.
Str(v) ==
    CASE v.t = "none" -> <<"None">>
      [] v.t = "int" -> IntStr(v.i)
      [] v.t = "bool" -> IF v.i = 1 THEN <<"True">> ELSE <<"False">>
      [] v.t = "str" -> v.s
      [] OTHER -> <<"<seq>">>

\* sep.join(xs) for a sequence of texts.
RECURSIVE Join(_, _)
Join(sep, xs) ==
    IF xs = <<>> THEN <<>>
    ELSE IF Len(xs) = 1 THEN xs[1]
    ELSE xs[1] \o sep \o Join(sep, Tail(xs))

\* The outcome of a call: a value, or an exception.
Ok(sqltext, prms) == [ok |-> TRUE, err |-> "", sql |-> sqltext, params |-> prms]
Raise(kind) == [ok |-> FALSE, err |-> kind, sql |-> <<>>, params |-> <<>>]
NoRet == [ok |-> TRUE, err |-> "none", sql |-> <<>>, params |-> <<>>]

(***************************************************************************)
(* sqlparam                                                                *)
(***************************************************************************)
\* sqlparam counting the numeric ordinal from one.
sqlparam_one_based(ps, name, index) ==
    IF ~IsInt(index) THEN Raise("ValueError")
    ELSE IF Truthy(name) /\ (Contains(name.s, ";") \/ Contains(name.s, "'"))
    THEN Raise("ValueError")
    ELSE CASE ps = "qmark" -> Ok(<<"?">>, <<>>)
           [] ps = "numeric" -> Ok(<<":">> \o IntStr(index.i + 1), <<>>)
           [] ps = "named" -> IF name.t = "none" THEN Raise("ValueError")
                              ELSE Ok(<<":">> \o Str(name), <<>>)
           [] ps = "format" -> Ok(<<"%s">>, <<>>)
           [] ps = "pyformat" -> Ok(<<"%s">>, <<>>)
           [] OTHER -> Raise("ValueError")

\* sqlparam looking at the name under the named paramstyle only.
sqlparam_named_only(ps, name, index) ==
    IF ~IsInt(index) THEN Raise("ValueError")
    ELSE CASE ps = "qmark" -> Ok(<<"?">>, <<>>)
           [] ps = "numeric" -> Ok(<<":">> \o Str(index), <<>>)
           [] ps = "named" ->
                IF name.t = "none" THEN Raise("ValueError")
                ELSE IF Contains(name.s, ";") \/ Contains(name.s, "'")
                THEN Raise("ValueError")
                ELSE Ok(<<":">> \o Str(name), <<>>)
           [] ps = "format" -> Ok(<<"%s">>, <<>>)
           [] ps = "pyformat" -> Ok(<<"%s">>, <<>>)
           [] OTHER -> Raise("ValueError")

\* name is a PyVal (None or str), index a PyVal.
sqlparam(ps, name, index) ==
    IF ~IsInt(index) THEN Raise("ValueError")
    ELSE IF Truthy(name) /\ (Contains(name.s, ";") \/ Contains(name.s, "'"))
    THEN Raise("ValueError")
    ELSE CASE ps = "qmark" -> Ok(<<"?">>, <<>>)
           [] ps = "numeric" -> Ok(<<":">> \o Str(index), <<>>)
           [] ps = "named" -> IF name.t = "none" THEN Raise("ValueError")
                              ELSE Ok(<<":">> \o Str(name), <<>>)
           [] ps = "format" -> Ok(<<"%s">>, <<>>)
           [] ps = "pyformat" -> Ok(<<"%s">>, <<>>)
           [] OTHER -> Raise("ValueError")

\* DbTable.sqlparam: the placeholder in the engine's paramstyle.
DbTable_sqlparam(name, index) == sqlparam(paramstyle, PyStr(name), PyInt(index))

(***************************************************************************)
(* Dialects (src/tbltalk/dbdialect.py).  A template is a text whose        *)
(* "{field}" lexemes are replacement fields.                               *)
(***************************************************************************)
sql92_keywords ==
    [select |-> "SELECT", distinct |-> "DISTINCT", from |-> "FROM",
     where |-> "WHERE", groupby |-> "GROUP BY", having |-> "HAVING",
     orderby |-> "ORDER BY", limit |-> "LIMIT", count |-> "COUNT",
     min |-> "MIN", max |-> "MAX", avg |-> "AVG"]

\* paging[0]: the statement that counts the rows of a subquery.
sql92_count_sql == <<"SELECT COUNT(*) FROM (", "{subquery}", ") x">>

\* paging[1]: the SELECT template of a page, without its window.
paging_select ==
    <<"SELECT", " ", "{columns}", " ", "FROM", " ", "{table}", "{where}",
      "{groupby}", "{having}", "{orderby}", " ">>

sql92_paging_sql ==
    paging_select \o <<"LIMIT", " ", "{page_size}", " ", "OFFSET", " ",
                       "{page_start}">>

mssql_paging ==
    <<<<"SELECT COUNT(*) c FROM (", "{subquery}", ") x">>,
      paging_select \o <<"OFFSET", " ", "{page_start}", " ",
                         "ROWS FETCH NEXT", " ", "{page_size}", " ",
                         "ROWS ONLY">>>>

mariadb_paging ==
    <<sql92_count_sql,
      paging_select \o <<"LIMIT", " ", "{page_start}", ", ", "{page_size}">>>>

sql92_dialect ==
    [dialect |-> "sql",
     insert_sql |-> <<"INSERT INTO", " ", "{table}", " ", "(", "{columns}",
                      ")", " ", "VALUES", " ", "(", "{values}", ")">>,
     select_sql |-> <<"SELECT", "{distinct}", " ", "{columns}", " ", "FROM",
                      " ", "{table}", "{where}", "{groupby}", "{having}",
                      "{orderby}", "{limit}">>,
     update_sql |-> <<"UPDATE", " ", "{table}", " ", "SET", " ",
                      "{set_columns}">>,
     delete_sql |-> <<"DELETE FROM", " ", "{table}">>,
     get_last_inserted_id |-> <<>>,
     paging |-> <<sql92_count_sql, sql92_paging_sql>>,
     keywords |-> sql92_keywords]

\* mssql_dialect keeping the SELECT template of sql92.
mssql_dialect_limit_last ==
    [sql92_dialect EXCEPT
       !.dialect = "mssql",
       !.insert_sql = <<"INSERT INTO", " ", "{table}", " ", "(", "{columns}",
                        ")", " ", "OUTPUT INSERTED.[", "{pk_field}", "]", " ",
                        "VALUES", " ", "(", "{values}", ")">>,
       !.paging = mssql_paging,
       !.keywords = [sql92_keywords EXCEPT !.limit = "TOP"]]

mssql_dialect ==
    [sql92_dialect EXCEPT
       !.dialect = "mssql",
       !.select_sql = <<"SELECT", "{distinct}", "{limit}", " ", "{columns}",
                        " ", "FROM", " ", "{table}", "{where}", "{groupby}",
                        "{having}", "{orderby}">>,
       !.insert_sql = <<"INSERT INTO", " ", "{table}", " ", "(", "{columns}",
                        ")", " ", "OUTPUT INSERTED.[", "{pk_field}", "]", " ",
                        "VALUES", " ", "(", "{values}", ")">>,
       !.paging = mssql_paging,
       !.keywords = [sql92_keywords EXCEPT !.limit = "TOP"]]

mariadb_dialect ==
    [sql92_dialect EXCEPT
       !.dialect = "mariadb",
       !.paging = mariadb_paging,
       !.get_last_inserted_id = <<"SELECT LAST_INSERT_ID()">>]

postgres_dialect ==
    [sql92_dialect EXCEPT
       !.dialect = "postgres",
       !.insert_sql = <<"INSERT INTO", " ", "{table}", " ", "(", "{columns}",
                        ")", " ", "VALUES", " ", "(", "{values}", ")", " ",
                        "RETURNING", " ", "{pk_field}", " ", "AS newid">>]

sqlite3_dialect ==
    [sql92_dialect EXCEPT
       !.dialect = "sqlite3",
       !.paging = mariadb_paging,
       !.get_last_inserted_id = <<"SELECT last_insert_rowid()">>]

Dialects == {sql92_dialect, mssql_dialect, mariadb_dialect, postgres_dialect,
             sqlite3_dialect}

\* A dialect a caller makes of sql92_dialect, with a limit keyword of its
\* own; DbEngine takes any dialect it is given.
custom_dialect ==
    [sql92_dialect EXCEPT
       !.dialect = "custom",
       !.keywords = [sql92_keywords EXCEPT !.limit = "FETCH FIRST"]]

\* The dict dbdialect.py writes for a dialect, its entries in the order of
\* the source (the column_schema entries are left out).
KeywordsDict(kw) ==
    PyDict(<<[k |-> <<"select">>, v |-> PyStr(<<kw.select>>)],
             [k |-> <<"distinct">>, v |-> PyStr(<<kw.distinct>>)],
             [k |-> <<"from">>, v |-> PyStr(<<kw.from>>)],
             [k |-> <<"where">>, v |-> PyStr(<<kw.where>>)],
             [k |-> <<"groupby">>, v |-> PyStr(<<kw.groupby>>)],
             [k |-> <<"having">>, v |-> PyStr(<<kw.having>>)],
             [k |-> <<"orderby">>, v |-> PyStr(<<kw.orderby>>)],
             [k |-> <<"limit">>, v |-> PyStr(<<kw.limit>>)],
             [k |-> <<"count">>, v |-> PyStr(<<kw.count>>)],
             [k |-> <<"min">>, v |-> PyStr(<<kw.min>>)],
             [k |-> <<"max">>, v |-> PyStr(<<kw.max>>)],
             [k |-> <<"avg">>, v |-> PyStr(<<kw.avg>>)]>>)

DialectDict(d) ==
    PyDict(<<[k |-> <<"dialect">>, v |-> PyStr(<<d.dialect>>)],
             [k |-> <<"insert_sql">>, v |-> PyStr(d.insert_sql)],
             [k |-> <<"select_sql">>, v |-> PyStr(d.select_sql)],
             [k |-> <<"update_sql">>, v |-> PyStr(d.update_sql)],
             [k |-> <<"delete_sql">>, v |-> PyStr(d.delete_sql)],
             [k |-> <<"get_last_inserted_id">>,
              v |-> IF d.get_last_inserted_id = <<>> THEN PyNone
                    ELSE PyStr(d.get_last_inserted_id)],
             [k |-> <<"paging">>,
              v |-> PyTuple(<<PyStr(d.paging[1]), PyStr(d.paging[2])>>)],
             [k |-> <<"keywords">>, v |-> KeywordsDict(d.keywords)]>>)

\* str.lower() of one lexeme of a dialect.
LowerLexeme(x) ==
    CASE x = "SELECT" -> "select"
      [] x = "DISTINCT" -> "distinct"
      [] x = "FROM" -> "from"
      [] x = "WHERE" -> "where"
      [] x = "GROUP BY" -> "group by"
      [] x = "HAVING" -> "having"
      [] x = "ORDER BY" -> "order by"
      [] x = "LIMIT" -> "limit"
      [] x = "TOP" -> "top"
      [] x = "FETCH FIRST" -> "fetch first"
      [] x = "COUNT" -> "count"
      [] x = "MIN" -> "min"
      [] x = "MAX" -> "max"
      [] x = "AVG" -> "avg"
      [] x = "INSERT INTO" -> "insert into"
      [] x = "VALUES" -> "values"
      [] x = "OUTPUT INSERTED.[" -> "output inserted.["
      [] x = "RETURNING" -> "returning"
      [] x = "AS newid" -> "as newid"
      [] x = "UPDATE" -> "update"
      [] x = "SET" -> "set"
      [] x = "DELETE FROM" -> "delete from"
      [] x = "SELECT LAST_INSERT_ID()" -> "select last_insert_id()"
      [] x = "SELECT last_insert_rowid()" -> "select last_insert_rowid()"
      [] x = "SELECT COUNT(*) FROM (" -> "select count(*) from ("
      [] x = "SELECT COUNT(*) c FROM (" -> "select count(*) c from ("
      [] x = "OFFSET" -> "offset"
      [] x = "ROWS FETCH NEXT" -> "rows fetch next"
      [] x = "ROWS ONLY" -> "rows only"
      [] OTHER -> x

\* value.lower()
str_lower(x) == [k \in 1..Len(x) |-> LowerLexeme(x[k])]

\* unshoutcase(dialect): a new dict with the str values lower-cased, the
\* dict values done the same way and every other value as it is.
RECURSIVE unshoutcase(_)
unshoutcase(d) ==
    PyDict([k \in 1..Len(d.q) |->
              [k |-> d.q[k].k,
               v |-> IF d.q[k].v.t = "str" THEN PyStr(str_lower(d.q[k].v.s))
                     ELSE IF d.q[k].v.t = "dict" THEN unshoutcase(d.q[k].v)
                     ELSE d.q[k].v]])

\* str.format_map(SafeDict(**kwargs)): a field the map has is replaced by its
\* text, any other lexeme (an unknown field included) stays as it is.
RECURSIVE safeformat(_, _)
safeformat(fmt, kwargs) ==
    IF fmt = <<>> THEN <<>>
    ELSE (IF Head(fmt) \in DOMAIN kwargs THEN kwargs[Head(fmt)]
          ELSE <<Head(fmt)>>) \o safeformat(Tail(fmt), kwargs)

(***************************************************************************)
(* DbTable: the statement builders.                                        *)
(***************************************************************************)
table_name == <<"t", "b", "l">>

\* An object is the sequence of its (key, value) items, in object order.
Keys(obj) == [k \in 1..Len(obj) |-> obj[k].k]
ObjValues(obj) == [k \in 1..Len(obj) |-> obj[k].v]

\* Paramvars with the ordinals counted from one.
Paramvars_from_one(cols) == [k \in 1..Len(cols) |-> DbTable_sqlparam(cols[k], k)]

\* [self.sqlparam(c, i) for i, c in enumerate(cols)]
Paramvars(cols) == [k \in 1..Len(cols) |-> DbTable_sqlparam(cols[k], k - 1)]

AnyRaised(rs) == \E k \in 1..Len(rs) : ~rs[k].ok

Sqls(rs) == [k \in 1..Len(rs) |-> rs[k].sql]

\* InsertFiltered dropping the primary key whatever pk_autonumber is.
InsertFiltered_always_drop(obj) ==
    SelectSeq(obj, LAMBDA f : Lower(f.k) # Lower(pk_field))

InsertFiltered(obj) ==
    SelectSeq(obj, LAMBDA f : Lower(f.k) # Lower(pk_field) \/ ~pk_autonumber)

create_insert_statement(obj) ==
    LET filtered_cols == InsertFiltered(obj)
        cols == Keys(filtered_cols)
        params == ObjValues(filtered_cols)
        paramvars == Paramvars(cols)
    IN  IF filtered_cols = <<>> THEN Raise("ValueError")
        ELSE IF AnyRaised(paramvars) THEN Raise("ValueError")
        ELSE Ok(safeformat(dialect.insert_sql,
                           [x \in {"{table}", "{columns}", "{values}",
                                   "{pk_field}"} |->
                              CASE x = "{table}" -> table_name
                                [] x = "{columns}" -> Join(<<", ">>, cols)
                                [] x = "{values}" ->
                                       Join(<<", ">>, Sqls(paramvars))
                                [] OTHER -> pk_field]),
                params)

\* UpdateFiltered comparing the names case-sensitively.
UpdateFiltered_case_sensitive(obj) == SelectSeq(obj, LAMBDA f : f.k # pk_field)

UpdateFiltered(obj) ==
    SelectSeq(obj, LAMBDA f : Lower(f.k) # Lower(pk_field))

\* "{col} = {p}" for each (col, p) of setitems.
SetItems(cols, paramvars) ==
    [k \in 1..Len(cols) |-> cols[k] \o <<" ", "=", " ">> \o paramvars[k].sql]

HasKey(obj, key) == \E k \in 1..Len(obj) : obj[k].k = key

GetItem(obj, key) == obj[CHOOSE k \in 1..Len(obj) : obj[k].k = key].v

create_update_statement(obj, id) ==
    IF id.t = "none" /\ ~HasKey(obj, pk_field) THEN Raise("KeyError")
    ELSE
    LET theid == IF id.t = "none" THEN GetItem(obj, pk_field) ELSE id
        filtered_cols == UpdateFiltered(obj)
        cols == Keys(filtered_cols)
        param_vals == ObjValues(filtered_cols)
        setitems == Paramvars(cols)
        pk_param == DbTable_sqlparam(pk_field, Len(cols))
    IN  IF filtered_cols = <<>> THEN Raise("ValueError")
        ELSE IF AnyRaised(setitems) \/ ~pk_param.ok THEN Raise("ValueError")
        ELSE Ok(safeformat(dialect.update_sql,
                           [x \in {"{table}", "{set_columns}"} |->
                              IF x = "{table}" THEN table_name
                              ELSE Join(<<", ">>,
                                        SetItems(cols, setitems))])
                  \o <<" ", "WHERE", " ">> \o pk_field \o <<" ", "=", " ">>
                  \o pk_param.sql,
                Append(param_vals, theid))

\* check_cols looking for ';' only.
check_cols_semicolon_only(cols) ==
    LET result == IF Truthy(cols) THEN cols ELSE PyStr(<<>>)
        joined == IF cols.t \in {"tuple", "list"}
                  THEN IF \E k \in 1..Len(cols.q) : cols.q[k].t # "str"
                       THEN Raise("TypeError")
                       ELSE Ok(Join(<<", ">>,
                                    [k \in 1..Len(cols.q) |-> cols.q[k].s]),
                               <<>>)
                  ELSE IF result.t = "str" THEN Ok(result.s, <<>>)
                  ELSE Raise("TypeError")
    IN  IF ~joined.ok THEN joined
        ELSE IF Contains(joined.sql, ";") THEN Raise("ValueError")
        ELSE joined

\* check_cols of _create_select_sql_impl: the joined text, or an exception.
check_cols(cols) ==
    LET result == IF Truthy(cols) THEN cols ELSE PyStr(<<>>)
        joined == IF cols.t \in {"tuple", "list"}
                  THEN IF \E k \in 1..Len(cols.q) : cols.q[k].t # "str"
                       THEN Raise("TypeError")
                       ELSE Ok(Join(<<", ">>,
                                    [k \in 1..Len(cols.q) |-> cols.q[k].s]),
                               <<>>)
                  ELSE IF result.t = "str" THEN Ok(result.s, <<>>)
                  ELSE Raise("TypeError")
    IN  IF ~joined.ok THEN joined
        ELSE IF Contains(joined.sql, ";") \/ Contains(joined.sql, "'")
        THEN Raise("ValueError")
        ELSE joined

\* sqlpart rendering an empty clause too.
sqlpart_keeps_empty(keyword, clause) ==
    IF clause.t = "none" THEN <<>>
    ELSE <<" ", keyword, " ">> \o Str(clause)

\* sqlpart of _create_select_sql_impl.
sqlpart(keyword, clause) ==
    IF clause.t = "none" \/ clause = PyStr(<<>>) THEN <<>>
    ELSE <<" ", keyword, " ">> \o Str(clause)

\* The keyword arguments of create_select_sql, with their defaults.
SelectDefaults ==
    [columns |-> PyStr(<<"*">>), distinct |-> PyBool(FALSE), where |-> PyNone,
     groupby |-> PyNone, having |-> PyNone, orderby |-> PyNone,
     limit |-> PyNone]

_create_select_sql_impl(select_sqlfmt, a) ==
    LET columns == check_cols(a.columns)
        orderby == check_cols(a.orderby)
        groupby == check_cols(a.groupby)
        kw == dialect.keywords
    IN  IF ~columns.ok THEN columns
        ELSE IF ~orderby.ok THEN orderby
        ELSE IF ~groupby.ok THEN groupby
        ELSE Ok(safeformat(select_sqlfmt,
                  [x \in {"{distinct}", "{columns}", "{table}", "{where}",
                          "{groupby}", "{having}", "{orderby}", "{limit}"} |->
                     CASE x = "{distinct}" ->
                            IF Truthy(a.distinct) THEN <<" ", kw.distinct>>
                            ELSE <<>>
                       [] x = "{columns}" -> columns.sql
                       [] x = "{table}" -> table_name
                       [] x = "{where}" -> sqlpart(kw.where, a.where)
                       [] x = "{groupby}" ->
                            sqlpart(kw.groupby, PyStr(groupby.sql))
                       [] x = "{having}" -> sqlpart(kw.having, a.having)
                       [] x = "{orderby}" ->
                            sqlpart(kw.orderby, PyStr(orderby.sql))
                       [] OTHER -> sqlpart(kw.limit, a.limit)]),
                <<>>)

create_select_sql(a) == _create_select_sql_impl(dialect.select_sql, a)

(***************************************************************************)
(* DbTable.dynamicquery                                                    *)
(***************************************************************************)
K_columns == <<"c", "o", "l", "u", "m", "n", "s">>
K_distinct == <<"d", "i", "s", "t", "i", "n", "c", "t">>
K_where == <<"w", "h", "e", "r", "e">>
K_groupby == <<"g", "r", "o", "u", "p", "b", "y">>
K_having == <<"h", "a", "v", "i", "n", "g">>
K_orderby == <<"o", "r", "d", "e", "r", "b", "y">>
K_limit == <<"l", "i", "m", "i", "t">>
K_column == <<"c", "o", "l", "u", "m", "n">>
K_select == <<"s", "e", "l", "e", "c", "t">>
K_top == <<"t", "o", "p">>
K_params == <<"p", "a", "r", "a", "m", "s">>

\* `key in select_parts`, and the part it names.
InSelectParts(key) ==
    key \in {K_columns, K_distinct, K_where, K_groupby, K_having, K_orderby,
             K_limit}

PartOf(key) ==
    CASE key = K_columns -> "columns"
      [] key = K_distinct -> "distinct"
      [] key = K_where -> "where"
      [] key = K_groupby -> "groupby"
      [] key = K_having -> "having"
      [] key = K_orderby -> "orderby"
      [] OTHER -> "limit"

\* aliases = {"column": "columns", "select": "columns", "top": "limit"}
InAliases(key) == key \in {K_column, K_select, K_top}

aliases(key) == IF key = K_top THEN "limit" ELSE "columns"

\* key := prefix, val := orderby direction; in the dict's order.
one_result_methods ==
    << [k |-> <<"s", "i", "n", "g", "l", "e">>, v |-> <<>>],
       [k |-> <<"o", "n", "e">>, v |-> <<>>],
       [k |-> <<"f", "e", "t", "c", "h", "o", "n", "e">>, v |-> <<>>],
       [k |-> <<"f", "i", "r", "s", "t">>, v |-> <<>>],
       [k |-> <<"l", "a", "s", "t">>, v |-> <<" ", "D", "E", "S", "C">>] >>

\* {k.lower(): v for k, v in kwargs.items()}: a key seen again keeps its
\* place and takes the later value.
RECURSIVE lc_kwargs(_)
\* lc_kwargs without the k.lower().
lc_kwargs_keeps_case(kwargs) == kwargs

lc_kwargs(kwargs) ==
    IF kwargs = <<>> THEN <<>>
    ELSE LET front == lc_kwargs(SubSeq(kwargs, 1, Len(kwargs) - 1))
             item == kwargs[Len(kwargs)]
             key == Lower(item.k)
         IN  IF HasKey(front, key)
             THEN [k \in 1..Len(front) |->
                     IF front[k].k = key THEN [k |-> key, v |-> item.v]
                     ELSE front[k]]
             ELSE Append(front, [k |-> key, v |-> item.v])

\* The state of the loop over lc_kwargs before any item.
LoopStart ==
    [select_parts |-> SelectDefaults, counter |-> 0, constraints |-> <<>>,
     params |-> <<>>, err |-> ""]

\* One pass of the loop body over (key, value).
LoopBody(st, key, value) ==
    IF st.err # "" THEN st
    ELSE IF key = K_params
    THEN IF value.t \in {"tuple", "list"}
         THEN [st EXCEPT !.params = st.params \o value.q]
         ELSE IF value.t = "str"
         THEN [st EXCEPT !.params = st.params \o
                 [k \in 1..Len(value.s) |-> PyStr(<<value.s[k]>>)]]
         ELSE [st EXCEPT !.err = "TypeError"]
    ELSE IF InSelectParts(key)
    THEN [st EXCEPT !.select_parts[PartOf(key)] = value]
    ELSE IF InAliases(key)
    THEN [st EXCEPT !.select_parts[aliases(key)] = value]
    ELSE LET p == DbTable_sqlparam(key, st.counter)
         IN  IF ~p.ok THEN [st EXCEPT !.err = p.err]
             ELSE [st EXCEPT
                     !.constraints =
                         Append(st.constraints,
                                key \o <<" ", "=", " ">> \o p.sql),
                     !.params = Append(st.params, value),
                     !.counter = st.counter + 1]

\* MixesWhere letting one constraint pass.
MixesWhere_two_or_more(st) ==
    Truthy(st.select_parts.where) /\ Len(st.constraints) > 1

\* if select_parts['where'] and len(constraints) > 0: raise ValueError
MixesWhere(st) == Truthy(st.select_parts.where) /\ Len(st.constraints) > 0

RECURSIVE Loop(_)
Loop(items) ==
    IF items = <<>> THEN LoopStart
    ELSE LoopBody(Loop(SubSeq(items, 1, Len(items) - 1)),
                  items[Len(items)].k, items[Len(items)].v)

\* found = [(k, v) for k, v in one_result_methods.items()
\*          if method_name.startswith(k)]
found(method_name) ==
    SelectSeq(one_result_methods, LAMBDA m : StartsWith(method_name, m.k))

\* orderby += direction: str + str, or list.extend over the characters.
AddDirection(orderby, direction) ==
    CASE orderby.t = "str" -> Ok(<<>>, <<PyStr(orderby.s \o direction)>>)
      [] orderby.t = "list" ->
           Ok(<<>>, <<PyList(orderby.q \o
                  [k \in 1..Len(direction) |-> PyStr(<<direction[k]>>)])>>)
      [] OTHER -> Raise("TypeError")

\* dynamicquery up to the statement it hands to query(): the outcome holds
\* the SELECT and its params, or the exception raised before any execution.
dynamicquery(method_name, args, kwargs) ==
    IF Len(args) > 0 THEN Raise("ValueError")
    ELSE
    LET name == Lower(method_name)
        st == Loop(lc_kwargs(kwargs))
        parts1 == IF Len(st.constraints) > 0
                  THEN [st.select_parts EXCEPT
                          !.where = PyStr(Join(<<" AND ">>, st.constraints))]
                  ELSE st.select_parts
        parts2 == IF ~Truthy(parts1.orderby)
                  THEN [parts1 EXCEPT !.orderby = PyList(<<PyStr(pk_field)>>)]
                  ELSE parts1
        fnd == found(name)
        is_one == Len(fnd) > 0
        ordered == AddDirection(parts2.orderby, fnd[1].v)
        parts3 == [parts2 EXCEPT !.orderby = ordered.params[1],
                                 !.limit = PyInt(1)]
        sqlselect == create_select_sql(IF is_one THEN parts3 ELSE parts2)
    IN  IF st.err # "" THEN Raise(st.err)
        ELSE IF MixesWhere(st) THEN Raise("ValueError")
        ELSE IF is_one /\ ~ordered.ok THEN ordered
        ELSE IF ~sqlselect.ok THEN sqlselect
        ELSE Ok(sqlselect.sql, st.params)

(***************************************************************************)
(* DbEngine.cursor and the operations that run in its scope.               *)
(*                                                                         *)
(* The driver is opaque: which of its calls raises (`fault`, at most one   *)
(* per operation) and the rows a cursor gives are inputs of an operation.  *)
(* `log` has the calls made on the driver, a raising call marked ":raise". *)
(***************************************************************************)
NoCause == [kind |-> "", name |-> <<>>]

\* engine._con when no connection is shared, and the connections a caller
\* may share.
NoCon == "None"

Cons == {"con1", "con2"}

\* `lent` when no use_shared_connection scope is open.  An open one is
\* [con, before]:
\* the connection it was entered with and engine._con as it found it.
NoScope == [con |-> NoCon, before |-> NoCon]

\* The exception a raising driver call raises.
DriverError == "DatabaseError"

\* What the body of a with-block did: the driver calls it made, the
\* exception it ended with ("" for none) and the rows it added.
Body(lg, err, delta) == [log |-> lg, err |-> err, delta |-> delta]

\* The outcome of an operation.
Out(err, lg, c, delta, val, stmts) ==
    [err |-> err, cause |-> NoCause, log |-> lg, con |-> c, delta |-> delta,
     value |-> val, executed |-> stmts]

\* DbEngine.cursor up to its try: the shared connection, or a new one and
\* its cursor.
cursor_enter(fault) ==
    IF shared # NoCon
    THEN [log |-> <<>>, err |-> "", con |-> "none", closeit |-> FALSE]
    ELSE IF fault = "connect"
    THEN [log |-> <<"connect:raise">>, err |-> DriverError, con |-> "none",
          closeit |-> FALSE]
    ELSE IF fault = "cursor"
    THEN [log |-> <<"connect", "cursor:raise">>, err |-> DriverError,
          con |-> "open", closeit |-> FALSE]
    ELSE [log |-> <<"connect", "cursor">>, err |-> "", con |-> "open",
          closeit |-> TRUE]

\* cursor_try committing in the except branch too.
cursor_try_commits_on_error(fault, body, closeit) ==
    LET close == IF closeit THEN <<"close">> ELSE <<>>
    IN  CASE body.err = "GeneratorExit" ->
               [log |-> body.log \o close, err |-> "", delta |-> 0]
          [] body.err # "" ->
               [log |-> body.log \o <<"commit">> \o close, err |-> body.err,
                delta |-> body.delta]
          [] fault = "commit" ->
               [log |-> body.log \o <<"commit:raise", "rollback">> \o close,
                err |-> DriverError, delta |-> 0]
          [] OTHER ->
               [log |-> body.log \o <<"commit">> \o close, err |-> "",
                delta |-> body.delta]

\* DbEngine.cursor from its try on, around a body: commit after a body that
\* ended well, rollback and re-raise after an Exception (GeneratorExit is
\* none), close in every case when the connection is the scope's own.
cursor_try(fault, body, closeit) ==
    LET close == IF closeit THEN <<"close">> ELSE <<>>
    IN  CASE body.err = "GeneratorExit" ->
               [log |-> body.log \o close, err |-> "", delta |-> 0]
          [] body.err # "" ->
               [log |-> body.log \o <<"rollback">> \o close, err |-> body.err,
                delta |-> 0]
          [] fault = "commit" ->
               [log |-> body.log \o <<"commit:raise", "rollback">> \o close,
                err |-> DriverError, delta |-> 0]
          [] OTHER ->
               [log |-> body.log \o <<"commit">> \o close, err |-> "",
                delta |-> body.delta]

\* with self.cursor() as cur: body
cursor(fault, body) ==
    LET e == cursor_enter(fault)
        t == cursor_try(fault, body, e.closeit)
    IN  IF e.err # ""
        THEN [log |-> e.log, err |-> e.err, delta |-> 0, con |-> e.con]
        ELSE [log |-> e.log \o t.log, err |-> t.err, delta |-> t.delta,
              con |-> IF e.closeit THEN "closed" ELSE e.con]

\* How many statements the log shows handed to execute.
Executes(lg) ==
    Cardinality({k \in 1..Len(lg) : lg[k] \in {"execute", "execute:raise"}})

\* The k-th row of the table, as the cursor gives it.
Row(k) == PyTuple(<<PyInt(k)>>)

\* first raising on an empty iterable whatever raiseOnEmpty is.
first_raises_on_empty(iterable, default, raiseOnEmpty) ==
    IF iterable # <<>> THEN [err |-> "", value |-> iterable[1]]
    ELSE [err |-> "ValueError", value |-> PyNone]

\* first(iterable, default=None, raiseOnEmpty=False)
first(iterable, default, raiseOnEmpty) ==
    IF iterable # <<>> THEN [err |-> "", value |-> iterable[1]]
    ELSE IF raiseOnEmpty THEN [err |-> "ValueError", value |-> PyNone]
    ELSE [err |-> "", value |-> default]

\* The body of DbTable.query: execute, then one yield per row.  A consumer
\* that stops at a row leaves the generator at its yield, and dropping the
\* generator raises GeneratorExit there.
query_body(fault, abandoned) ==
    IF fault = "execute" THEN Body(<<"execute:raise">>, DriverError, 0)
    ELSE IF abandoned THEN Body(<<"execute">>, "GeneratorExit", 0)
    ELSE Body(<<"execute">>, "", 0)

\* The end of dynamicquery, the execution of the statement it built:
\* first(self.query(..)) for a single-result name, list(self.query(..))
\* otherwise.
run_statement(built, is_one, fault, rows) ==
    LET scope == cursor(fault, query_body(fault, is_one /\ rows # <<>>))
        f == first(rows, PyNone, FALSE)
        stmts == IF Executes(scope.log) > 0
                 THEN <<[sql |-> built.sql, params |-> built.params]>>
                 ELSE <<>>
    IN  IF ~built.ok THEN Out(built.err, <<>>, "none", 0, PyNone, <<>>)
        ELSE IF scope.err # ""
        THEN Out(scope.err, scope.log, scope.con, 0, PyNone, stmts)
        ELSE IF is_one
        THEN Out(f.err, scope.log, scope.con, 0, f.value, stmts)
        ELSE Out("", scope.log, scope.con, 0, PyList(rows), stmts)

\* dynamicquery with the execution of its statement.
run_dynamicquery(method_name, args, kwargs, fault, rows) ==
    run_statement(dynamicquery(method_name, args, kwargs),
                  found(Lower(method_name)) # <<>>, fault, rows)

\* pat = "single|one|first|last|(find|get)(_by)?", used with match(): the
\* name starts with one of the alternatives.
DynamicPrefixes ==
    {<<"s", "i", "n", "g", "l", "e">>, <<"o", "n", "e">>,
     <<"f", "i", "r", "s", "t">>, <<"l", "a", "s", "t">>,
     <<"f", "i", "n", "d">>, <<"g", "e", "t">>}

_re_dynamic_methods_match(name) ==
    \E p \in DynamicPrefixes : StartsWith(name, p)

\* runit wrapping a ValueError only.
runit_wraps_value_errors(name, out) ==
    IF out.err # "ValueError" THEN out
    ELSE [out EXCEPT !.err = "RuntimeError",
                     !.cause = [kind |-> out.err, name |-> name]]

\* runit of __getattr__: any Exception of dynamicquery is raised again as a
\* RuntimeError that names the method, `from err`.
runit(name, out) ==
    IF out.err = "" THEN out
    ELSE [out EXCEPT !.err = "RuntimeError",
                     !.cause = [kind |-> out.err, name |-> name]]

\* table.<name>(*args, **kwargs) for a name DbTable does not define.
__getattr__(name, args, kwargs, fault, rows) ==
    IF ~_re_dynamic_methods_match(name)
    THEN Out("AttributeError", <<>>, "none", 0, PyNone, <<>>)
    ELSE LET out == run_dynamicquery(name, args, kwargs, fault, rows)
         IN  runit(name, out)

\* The dialect gives the new id: in the INSERT itself, or by a statement of
\* its own.
SuppliesId ==
    \/ dialect.get_last_inserted_id # <<>>
    \/ Contains(dialect.insert_sql, "RETURNING")
    \/ Contains(dialect.insert_sql, "OUTPUT INSERTED.[")

\* DbTable.insert; `fetched` is what the last fetchone gives.
insert(obj, fault, fetched) ==
    LET stmt == create_insert_statement(obj)
        lastid == dialect.get_last_inserted_id
        body ==
          IF fault = "execute" THEN Body(<<"execute:raise">>, DriverError, 0)
          ELSE IF lastid = <<>>
          THEN Body(<<"execute", IF fault = "fetchone" THEN "fetchone:raise"
                                 ELSE "fetchone">>, "", 1)
          ELSE IF fault = "execute2"
          THEN Body(<<"execute", "execute:raise">>, DriverError, 1)
          ELSE IF fault = "fetchone"
          THEN Body(<<"execute", "execute", "fetchone:raise">>, DriverError, 1)
          ELSE Body(<<"execute", "execute", "fetchone">>, "", 1)
        result == IF lastid = <<>> /\ fault = "fetchone" THEN PyNone
                  ELSE fetched
        id == IF Truthy(result) THEN result.q[1] ELSE PyInt(0)
        scope == cursor(fault, body)
        stmts == SubSeq(<<[sql |-> stmt.sql, params |-> stmt.params],
                          [sql |-> lastid, params |-> <<>>]>>,
                        1, Executes(scope.log))
    IN  IF ~stmt.ok THEN Out(stmt.err, <<>>, "none", 0, PyNone, <<>>)
        ELSE IF scope.err # ""
        THEN Out(scope.err, scope.log, scope.con, scope.delta, PyNone, stmts)
        ELSE Out("", scope.log, scope.con, scope.delta, id, stmts)

\* has_pk: `self.pk_field in to_dotdict(obj)`, the key as it is spelled.
has_pk(obj) == HasKey(obj, pk_field)

\* get_pk: `to_dotdict(obj).get(self.pk_field, None)`, the key as it is
\* spelled.
get_pk(obj) == IF HasKey(obj, pk_field) THEN GetItem(obj, pk_field) ELSE PyNone

create_upsert_statement(obj) ==
    IF has_pk(obj) THEN create_update_statement(obj, PyNone)
    ELSE create_insert_statement(obj)

\* DbTable.save: the statements are built first; in the scope the first
\* line of the body reads `con`, a name bound nowhere, and raises NameError
\* before any statement is executed.
save(args, fault) ==
    LET statements == [k \in 1..Len(args) |-> create_upsert_statement(args[k])]
        failed == {k \in 1..Len(args) : ~statements[k].ok}
        k0 == CHOOSE k \in failed : \A j \in failed : k <= j
        scope == cursor(fault, Body(<<>>, "NameError", 0))
    IN  IF failed # {}
        THEN Out(statements[k0].err, <<>>, "none", 0, PyNone, <<>>)
        ELSE Out(scope.err, scope.log, scope.con, scope.delta, PyNone, <<>>)

(***************************************************************************)
(* DbTable.paged.  The database is opaque: `db` has how many rows of the   *)
(* table the WHERE of the call keeps (db.n) and how many groups its        *)
(* GROUP BY and HAVING leave of them (db.g).  The rows of the model differ *)
(* in every column, and a result is rows 1..m in the order of the          *)
(* statement.                                                              *)
(***************************************************************************)
\* The replacement fields str.format finds in the paging templates.
PagingFields == {"{subquery}", "{page_size}", "{page_start}", "{current_page}"}

\* str.format(**kwargs): every field is replaced, a field without a keyword
\* raises KeyError.
str_format(fmt, kwargs) ==
    IF \E k \in 1..Len(fmt) : fmt[k] \in PagingFields \ DOMAIN kwargs
    THEN Raise("KeyError")
    ELSE Ok(safeformat(fmt, kwargs), <<>>)

IsDigit(c) == c \in {"0", "1", "2", "3", "4", "5", "6", "7", "8", "9"}

DigitValue(c) == CHOOSE d \in 0..9 : DigitChar(d) = c

\* The number the database reads at lexeme k of a statement, and the place
\* it ends at.
RECURSIVE ReadNat(_, _, _)
ReadNat(sql, k, acc) ==
    IF k <= Len(sql) /\ IsDigit(sql[k])
    THEN ReadNat(sql, k + 1, acc * 10 + DigitValue(sql[k]))
    ELSE [value |-> acc, next |-> k]

\* The place of the last lexeme x of a statement.
LastIndex(sql, x) ==
    CHOOSE k \in 1..Len(sql) :
       sql[k] = x /\ \A j \in (k + 1)..Len(sql) : sql[j] # x

\* The number after the keyword x and a blank.
NumAfter(sql, x) == ReadNat(sql, LastIndex(sql, x) + 2, 0)

\* The window a paging statement asks the database for, in the three
\* grammars of dbdialect.py: OFFSET s ROWS FETCH NEXT p ROWS ONLY,
\* LIMIT p OFFSET s, and LIMIT s, p.
DbWindow(sql) ==
    IF Contains(sql, "ROWS FETCH NEXT")
    THEN [offset |-> NumAfter(sql, "OFFSET").value,
          limit |-> NumAfter(sql, "ROWS FETCH NEXT").value]
    ELSE IF Contains(sql, "OFFSET")
    THEN [offset |-> NumAfter(sql, "OFFSET").value,
          limit |-> NumAfter(sql, "LIMIT").value]
    ELSE LET s == NumAfter(sql, "LIMIT")
         IN  [offset |-> s.value, limit |-> ReadNat(sql, s.next + 1, 0).value]

\* How many rows a SELECT gives before any window: the groups when it has a
\* GROUP BY, the rows its WHERE keeps otherwise, and of either at most one
\* when it is a SELECT DISTINCT of the constant column "1 one".
DbSelected(sql, db) ==
    LET base == IF Contains(sql, "GROUP BY") THEN db.g ELSE db.n
    IN  IF Contains(sql, "DISTINCT") /\ Contains(sql, "1 one") /\ base > 1
        THEN 1
        ELSE base

\* The rows the cursor gives for a paging statement.
DbPage(sql, db) ==
    LET w == DbWindow(sql)
        m == DbSelected(sql, db)
        last == IF w.offset + w.limit < m THEN w.offset + w.limit ELSE m
    IN  [j \in 1..(IF last > w.offset THEN last - w.offset ELSE 0) |->
            Row(w.offset + j)]

\* page_start counting the pages from zero.
page_start_from_page_zero(current_page, page_size) == current_page * page_size

\* page_start = (current_page - 1) * page_size
page_start(current_page, page_size) == (current_page - 1) * page_size

\* The keyword arguments paged hands to create_select_sql for the subquery
\* of its count statement.
SubqueryArgs(a) ==
    [SelectDefaults EXCEPT !.columns = PyStr(<<"1 one">>),
                           !.distinct = a.distinct, !.where = a.where,
                           !.groupby = a.groupby, !.having = a.having]

\* The second half of paged: the page statement is built, formatted with
\* its window and run by list(self.query(..)); `counted` is the outcome of
\* the first half.
paged_records(pagingsql, counted, page_size, current_page, params, fault, db) ==
    LET sql == str_format(pagingsql.sql,
                 [x \in {"{page_size}", "{page_start}", "{current_page}"} |->
                    CASE x = "{page_size}" -> IntStr(page_size)
                      [] x = "{page_start}" ->
                           IntStr(page_start(current_page, page_size))
                      [] OTHER -> IntStr(current_page)])
        scope == cursor("none", query_body(IF fault = "execute2" THEN "execute"
                                           ELSE "none", FALSE))
        result == PyDict(<<[k |-> <<"total_records">>, v |-> counted.value],
                           [k |-> <<"page_size">>, v |-> PyInt(page_size)],
                           [k |-> <<"current_page">>, v |-> PyInt(current_page)],
                           [k |-> <<"records">>,
                            v |-> PyList(DbPage(sql.sql, db))]>>)
        stmts == counted.executed \o <<[sql |-> sql.sql, params |-> params]>>
    IN  IF ~pagingsql.ok
        THEN [counted EXCEPT !.err = pagingsql.err, !.value = PyNone]
        ELSE IF ~sql.ok THEN [counted EXCEPT !.err = sql.err, !.value = PyNone]
        ELSE Out(scope.err, counted.log \o scope.log, scope.con, 0,
                 IF scope.err = "" THEN result ELSE PyNone, stmts)

\* The first half of paged: the count statement is made of the subquery and
\* run by self.scalar(..).
paged_count(subquery, params, fault, db) ==
    LET countsql == str_format(dialect.paging[1],
                               [x \in {"{subquery}"} |-> subquery.sql])
        scope == cursor(fault,
                        IF fault = "execute"
                        THEN Body(<<"execute:raise">>, DriverError, 0)
                        ELSE Body(<<"execute", "fetchone">>, "", 0))
        stmts == IF Executes(scope.log) > 0
                 THEN <<[sql |-> countsql.sql, params |-> params]>>
                 ELSE <<>>
    IN  IF ~subquery.ok THEN Out(subquery.err, <<>>, "none", 0, PyNone, <<>>)
        ELSE IF ~countsql.ok
        THEN Out(countsql.err, <<>>, "none", 0, PyNone, <<>>)
        ELSE Out(scope.err, scope.log, scope.con, 0,
                 PyInt(DbSelected(countsql.sql, db)), stmts)

\* DbTable.paged
paged(a, page_size, current_page, params, fault, db) ==
    LET counted == paged_count(create_select_sql(SubqueryArgs(a)), params,
                               fault, db)
    IN  IF counted.err # "" THEN [counted EXCEPT !.value = PyNone]
        ELSE paged_records(_create_select_sql_impl(dialect.paging[2], a),
                           counted, page_size, current_page, params, fault, db)

(***************************************************************************)
(* DbRow (src/tbltalk/dbrow.py; DotDict of tbltalk.py has the same         *)
(* methods): an OrderedDict, here the sequence of its (key, value) items,  *)
(* with attribute access.                                                  *)
(***************************************************************************)
\* Names OrderedDict has attributes of its own for.
ClassAttributes ==
    {<<"k", "e", "y", "s">>, <<"v", "a", "l", "u", "e", "s">>,
     <<"i", "t", "e", "m", "s">>, <<"g", "e", "t">>, <<"p", "o", "p">>,
     <<"u", "p", "d", "a", "t", "e">>, <<"c", "o", "p", "y">>,
     <<"c", "l", "e", "a", "r">>}

\* The bound method an attribute read finds for a name of ClassAttributes.
PyMethod(name) == [t |-> "method", i |-> 0, s |-> name, q |-> <<>>]

\* The outcome of an operation on a row: the exception ("" for none), the
\* row after it and the value read.
RowOut(err, r, val) == [err |-> err, row |-> r, value |-> val]

\* r[k]: OrderedDict.__getitem__
__getitem__(r, k) ==
    IF HasKey(r, k) THEN RowOut("", r, GetItem(r, k))
    ELSE RowOut("KeyError", r, PyNone)

\* r[k] = v: OrderedDict.__setitem__; a key the row has keeps its place.
__setitem__(r, k, v) ==
    IF HasKey(r, k)
    THEN RowOut("", [j \in 1..Len(r) |-> IF r[j].k = k THEN [k |-> k, v |-> v]
                                         ELSE r[j]], PyNone)
    ELSE RowOut("", Append(r, [k |-> k, v |-> v]), PyNone)

\* del r[k]: OrderedDict.__delitem__
__delitem__(r, k) ==
    IF HasKey(r, k)
    THEN RowOut("", SelectSeq(r, LAMBDA it : it.k # k), PyNone)
    ELSE RowOut("KeyError", r, PyNone)

\* r.k = v: __setattr__ = OrderedDict.__setitem__
__setattr__(r, k, v) == __setitem__(r, k, v)

\* DbRow.__delattr__ letting the KeyError through.
DbRow__delattr___raises_key_error(r, name) == __delitem__(r, name)

\* del r.name: DbRow.__delattr__
DbRow__delattr__(r, name) ==
    LET d == __delitem__(r, name)
    IN  IF d.err = "KeyError" THEN RowOut("AttributeError", r, PyNone) ELSE d

\* r.k: the attribute the class has, if any; DbRow.__getattr__ is called
\* only when the usual lookup finds none.
DbRow__getattr__(r, k) ==
    LET g == __getitem__(r, k)
    IN  IF k \in ClassAttributes THEN RowOut("", r, PyMethod(k))
        ELSE IF g.err = "KeyError" THEN RowOut("AttributeError", r, PyNone)
        ELSE g

(***************************************************************************)
(* The inputs the calls are made with.                                     *)
(***************************************************************************)
Paramstyles == {"qmark", "numeric", "named", "format", "pyformat", "odbc"}

PkFields == {<<"i", "d">>, <<"a">>}

FieldNames == {<<"i", "d">>, <<"I", "D">>, <<"a">>, <<"b", ";">>, <<"c", "'">>}

\* The value a field of an object carries: one value per field name.
FieldValue(key) ==
    CASE key = <<"i", "d">> -> PyInt(1)
      [] key = <<"I", "D">> -> PyInt(2)
      [] key = <<"a">> -> PyInt(3)
      [] key = <<"b", ";">> -> PyInt(4)
      [] OTHER -> PyInt(5)

\* The sequences of distinct elements of S, up to length n.
RECURSIVE DistinctSeqs(_, _)
DistinctSeqs(S, n) ==
    IF n = 0 THEN {<<>>}
    ELSE LET shorter == DistinctSeqs(S, n - 1)
         IN  shorter \cup
             UNION {{Append(q, x) :
                       x \in {y \in S : \A j \in 1..Len(q) : q[j] # y}} :
                    q \in {r \in shorter : Len(r) = n - 1}}

Objects ==
    {[k \in 1..Len(ks) |-> [k |-> ks[k], v |-> FieldValue(ks[k])]] :
        ks \in DistinctSeqs(FieldNames, MaxFields)}

Ids == {PyNone, PyInt(7)}

ParamNames == {PyNone, PyStr(<<>>), PyStr(<<"a">>), PyStr(<<"I", "D">>),
               PyStr(<<"b", ";">>), PyStr(<<"c", "'">>)}

Indexes == {PyInt(n) : n \in (0 - MaxIndex)..MaxIndex}
             \cup {PyNone, PyStr(<<"1">>), PyBool(TRUE)}

ColumnsArgs == {PyStr(<<"*">>), PyTuple(<<PyStr(<<"a">>), PyStr(<<"b">>)>>),
                PyStr(<<"a", ";">>)}
WhereArgs == {PyNone, PyStr(<<>>), PyStr(<<"x = ?">>)}
GroupbyArgs == {PyNone, PyStr(<<"g">>),
                PyTuple(<<PyStr(<<"g">>), PyStr(<<"h", "'">>)>>)}
HavingArgs == {PyNone, PyStr(<<"COUNT(*) > 1">>)}
OrderbyArgs == {PyNone, PyTuple(<<PyStr(<<"n", " ", "DESC">>), PyStr(<<"d">>)>>),
                PyStr(<<"n", ";">>)}
LimitArgs == {PyNone, PyInt(0), PyInt(10)}

SelectArgs ==
    [columns : ColumnsArgs, distinct : {PyBool(FALSE), PyBool(TRUE)},
     where : WhereArgs, groupby : GroupbyArgs, having : HavingArgs,
     orderby : OrderbyArgs, limit : LimitArgs]

MethodNames == {<<"f", "i", "n", "d", "_", "b", "y">>,
                <<"s", "i", "n", "g", "l", "e">>,
                <<"l", "a", "s", "t">>,
                <<"s", "u", "m">>}

\* The keyword arguments a dynamic call is made with.
KwItems ==
    {[k |-> K_where, v |-> w] : w \in WhereArgs}
      \cup {[k |-> <<"W", "h", "e", "r", "e">>, v |-> PyStr(<<"y = ?">>)],
            [k |-> K_params, v |-> PyTuple(<<PyInt(9)>>)],
            [k |-> K_orderby, v |-> PyStr(<<"n">>)],
            [k |-> K_top, v |-> PyInt(5)],
            [k |-> <<"a">>, v |-> PyInt(3)],
            [k |-> <<"I", "D">>, v |-> PyInt(2)],
            [k |-> <<"i", "d">>, v |-> PyInt(1)],
            [k |-> <<"b", ";">>, v |-> PyInt(4)]}

Kwargs ==
    {q \in DistinctSeqs(KwItems, MaxKwargs) :
        \A j, k \in 1..Len(q) : j # k => q[j].k # q[k].k}

Args == {<<>>, <<PyInt(1)>>}

\* The driver call that raises in an operation, if one does.
QueryFaults == {"none", "connect", "cursor", "execute", "commit"}

InsertFaults == QueryFaults \cup {"execute2", "fetchone"}

\* The rows a cursor gives for a SELECT on a table of n rows.
Rows(n) == {[k \in 1..m |-> Row(k)] : m \in 0..n}

\* What fetchone gives after an insert: the row of the new id when the
\* dialect asks for one, or nothing.
Fetched ==
    {PyNone} \cup (IF SuppliesId THEN {Row(table + 1)} ELSE {})

\* The names called on a table that DbTable does not define.
AttrNames == {<<"f", "i", "n", "d", "_", "b", "y">>,
              <<"s", "i", "n", "g", "l", "e">>,
              <<"f", "i", "r", "s", "t">>,
              <<"l", "a", "s", "t">>,
              <<"f", "e", "t", "c", "h", "o", "n", "e">>,
              <<"s", "u", "m">>,
              <<"s", "e", "a", "r", "c", "h">>}

\* The keyword arguments of a call on such a name.
AttrKwargs == {q \in Kwargs : Len(q) <= 1}

\* The objects save is called with.
SaveObjects == {obj \in Objects : Len(obj) <= 1}

RECURSIVE SeqsUpTo(_, _)
SeqsUpTo(S, n) ==
    IF n = 0 THEN {<<>>}
    ELSE LET shorter == SeqsUpTo(S, n - 1)
         IN  shorter \cup {Append(q, x) : q \in shorter, x \in S}

SaveArgs == SeqsUpTo(SaveObjects, MaxSave)

\* The configurations the engine is run in.
EngineParamstyles == {"qmark", "numeric"}

\* The driver calls that may raise in paged: of the count statement, or
\* the execute of the page statement.
PagedFaults == {"none", "connect", "execute", "execute2"}

\* The keyword arguments paged is called with; `limit` is none of them.
PagedArgs ==
    {a \in SelectArgs :
        /\ a.columns = PyStr(<<"*">>)
        /\ a.limit = PyNone
        /\ a.where # PyStr(<<>>)
        /\ a.having = PyNone \/ a.groupby # PyNone}

PageSizes == 1..MaxPageSize

CurrentPages == 1..MaxPage

\* What the database holds for a call: all the rows of the table when the
\* call has no WHERE, and at least one group where there are rows and no
\* HAVING.
Dbs(a, rows) ==
    {d \in [n : 0..rows, g : 0..rows] :
        /\ a.where = PyNone => d.n = rows
        /\ d.g <= d.n
        /\ (a.having = PyNone /\ d.n > 0) => d.g > 0
        /\ a.groupby = PyNone => d.g = d.n}

\* The names and values a row is used with; `keys` is a column name too.
RowNames == {<<"a">>, <<"b", ";">>, <<"k", "e", "y", "s">>}

RowValues == {PyInt(1), PyInt(2)}

Idle == [op |-> "idle"]

(***************************************************************************)
(* The state machine: one DbTable, called one operation at a time.         *)
(***************************************************************************)
Init ==
    /\ pk_field \in PkFields
    /\ pk_autonumber \in BOOLEAN
    /\ paramstyle \in Paramstyles
    /\ dialect \in Dialects
    /\ call = Idle
    /\ ret = NoRet
    /\ executed = <<>>
    /\ shared = NoCon
    /\ lent = NoScope
    /\ con = "none"
    /\ log = <<>>
    /\ table = 0
    /\ returned = PyNone
    /\ cause = NoCause
    /\ gen = "none"
    /\ row = <<>>
    /\ hist = <<>>

Config == <<pk_field, pk_autonumber, paramstyle, dialect>>

\* The state of the engine, its connection and the table behind it.
\* A DbRow the caller holds, and the sets and deletes done on it so far.
Record == <<row, hist>>

\* What the engine shares: its connection, and the scope that lent it.
Sharing == <<shared, lent>>

Engine == <<Sharing, con, log, table, returned, cause, gen>>

Sqlparam ==
    /\ call.op = "idle"
    /\ \E ps \in Paramstyles, name \in ParamNames, index \in Indexes :
          /\ call' = [op |-> "sqlparam", ps |-> ps, name |-> name,
                      index |-> index]
          /\ ret' = sqlparam(ps, name, index)
    /\ UNCHANGED <<Config, Record, executed, Engine>>

CreateInsertStatement ==
    /\ call.op = "idle"
    /\ \E obj \in Objects :
          /\ call' = [op |-> "create_insert_statement", obj |-> obj]
          /\ ret' = create_insert_statement(obj)
    /\ UNCHANGED <<Config, Record, executed, Engine>>

CreateUpdateStatement ==
    /\ call.op = "idle"
    /\ \E obj \in Objects, id \in Ids :
          /\ call' = [op |-> "create_update_statement", obj |-> obj, id |-> id]
          /\ ret' = create_update_statement(obj, id)
    /\ UNCHANGED <<Config, Record, executed, Engine>>

CreateSelectSql ==
    /\ call.op = "idle"
    /\ \E a \in SelectArgs :
          /\ call' = [op |-> "create_select_sql", a |-> a]
          /\ ret' = create_select_sql(a)
    /\ UNCHANGED <<Config, Record, executed, Engine>>

\* dynamicquery: the statement it builds is executed by query() unless an
\* exception was raised first.
Dynamicquery ==
    /\ call.op = "idle"
    /\ \E method_name \in MethodNames, args \in Args, kwargs \in Kwargs :
          /\ call' = [op |-> "dynamicquery", method_name |-> method_name,
                      args |-> args, kwargs |-> kwargs]
          /\ ret' = dynamicquery(method_name, args, kwargs)
          /\ executed' = IF ret'.ok
                         THEN <<[sql |-> ret'.sql, params |-> ret'.params]>>
                         ELSE <<>>
    /\ UNCHANGED <<Config, Record, Engine>>

HasPk ==
    /\ call.op = "idle"
    /\ \E obj \in Objects :
          /\ call' = [op |-> "has_pk", obj |-> obj]
          /\ returned' = PyBool(has_pk(obj))
    /\ ret' = Ok(<<>>, <<>>)
    /\ UNCHANGED <<Config, Record, executed, Sharing, con, log, table, cause, gen>>

GetPk ==
    /\ call.op = "idle"
    /\ \E obj \in Objects :
          /\ call' = [op |-> "get_pk", obj |-> obj]
          /\ returned' = get_pk(obj)
    /\ ret' = Ok(<<>>, <<>>)
    /\ UNCHANGED <<Config, Record, executed, Sharing, con, log, table, cause, gen>>

CreateUpsertStatement ==
    /\ call.op = "idle"
    /\ \E obj \in Objects :
          /\ call' = [op |-> "create_upsert_statement", obj |-> obj]
          /\ ret' = create_upsert_statement(obj)
    /\ UNCHANGED <<Config, Record, executed, Engine>>

\* unshoutcase(dialect), of a dialect of dbdialect.py or of the caller's.
Unshoutcase ==
    /\ call.op = "idle"
    /\ \E d \in Dialects \cup {custom_dialect} :
          /\ call' = [op |-> "unshoutcase", dialect |-> DialectDict(d)]
          /\ returned' = unshoutcase(DialectDict(d))
    /\ ret' = Ok(<<>>, <<>>)
    /\ UNCHANGED <<Config, Record, executed, Sharing, con, log, table, cause, gen>>

\* An operation on the row ends with the outcome out; a set or delete that
\* went through is added to the history.
RowFinish(out, changes) ==
    /\ ret' = IF out.err = "" THEN Ok(<<>>, <<>>) ELSE Raise(out.err)
    /\ returned' = out.value
    /\ row' = out.row
    /\ hist' = IF changes /\ out.err = "" THEN Append(hist, call') ELSE hist
    /\ UNCHANGED <<Config, executed, Sharing, con, log, table, cause, gen>>

\* row.name = value
RowSetattr ==
    /\ call.op = "idle"
    /\ Len(hist) < MaxOps
    /\ \E name \in RowNames, v \in RowValues :
          /\ call' = [op |-> "row_setattr", name |-> name, v |-> v]
          /\ RowFinish(__setattr__(row, name, v), TRUE)

\* row[name] = value
RowSetitem ==
    /\ call.op = "idle"
    /\ Len(hist) < MaxOps
    /\ \E name \in RowNames, v \in RowValues :
          /\ call' = [op |-> "row_setitem", name |-> name, v |-> v]
          /\ RowFinish(__setitem__(row, name, v), TRUE)

\* del row.name
RowDelattr ==
    /\ call.op = "idle"
    /\ Len(hist) < MaxOps
    /\ \E name \in RowNames :
          /\ call' = [op |-> "row_delattr", name |-> name, v |-> PyNone]
          /\ RowFinish(DbRow__delattr__(row, name), TRUE)

\* del row[name]
RowDelitem ==
    /\ call.op = "idle"
    /\ Len(hist) < MaxOps
    /\ \E name \in RowNames :
          /\ call' = [op |-> "row_delitem", name |-> name, v |-> PyNone]
          /\ RowFinish(__delitem__(row, name), TRUE)

\* row.name
RowGetattr ==
    /\ call.op = "idle"
    /\ \E name \in RowNames :
          /\ call' = [op |-> "row_getattr", name |-> name, v |-> PyNone]
          /\ RowFinish(DbRow__getattr__(row, name), FALSE)

\* row[name]
RowGetitem ==
    /\ call.op = "idle"
    /\ \E name \in RowNames :
          /\ call' = [op |-> "row_getitem", name |-> name, v |-> PyNone]
          /\ RowFinish(__getitem__(row, name), FALSE)

\* The call returns to its caller, which may make the next one.
Return ==
    /\ call.op # "idle"
    /\ gen \in {"none", "done"}
    /\ call' = Idle
    /\ ret' = NoRet
    /\ executed' = <<>>
    /\ log' = <<>>
    /\ returned' = PyNone
    /\ cause' = NoCause
    /\ gen' = "none"
    /\ UNCHANGED <<Config, Record, Sharing, con, table>>

(***************************************************************************)
(* The operations that reach the database.                                 *)
(***************************************************************************)
\* An operation ends with the outcome out.
Finish(out) ==
    /\ ret' = IF out.err = "" THEN Ok(<<>>, <<>>) ELSE Raise(out.err)
    /\ executed' = out.executed
    /\ log' = out.log
    /\ con' = out.con
    /\ table' = table + out.delta
    /\ returned' = out.value
    /\ cause' = out.cause

\* table.<name>(*args, **kwargs)
Getattr ==
    /\ call.op = "idle"
    /\ \E name \in AttrNames, args \in Args, kwargs \in AttrKwargs,
          fault \in QueryFaults, rows \in Rows(table) :
          /\ call' = [op |-> "getattr", name |-> name, args |-> args,
                      kwargs |-> kwargs, fault |-> fault, rows |-> rows]
          /\ \E out \in {__getattr__(name, args, kwargs, fault, rows)} :
                Finish(out)
    /\ UNCHANGED <<Config, Record, Sharing, gen>>

Insert ==
    /\ call.op = "idle"
    /\ table < MaxRows
    /\ \E obj \in Objects, fault \in InsertFaults, fetched \in Fetched :
          /\ call' = [op |-> "insert", obj |-> obj, fault |-> fault,
                      fetched |-> fetched]
          /\ \E out \in {insert(obj, fault, fetched)} : Finish(out)
    /\ UNCHANGED <<Config, Record, Sharing, gen>>

Save ==
    /\ call.op = "idle"
    /\ \E args \in SaveArgs, fault \in QueryFaults :
          /\ call' = [op |-> "save", args |-> args, fault |-> fault]
          /\ \E out \in {save(args, fault)} : Finish(out)
    /\ UNCHANGED <<Config, Record, Sharing, gen>>

\* The statement of a direct query() call.
a_select == [sql |-> <<"SELECT", " ", "*", " ", "FROM", " ">> \o table_name,
             params |-> <<>>]

\* query(sql, params) is called: a generator is made, none of its body runs.
Query ==
    /\ call.op = "idle"
    /\ \E fault \in QueryFaults, rows \in Rows(table) :
          call' = [op |-> "query", fault |-> fault, rows |-> rows, pos |-> 0]
    /\ gen' = "created"
    /\ ret' = Ok(<<>>, <<>>)
    /\ con' = "none"
    /\ UNCHANGED <<Config, Record, executed, Sharing, log, table, returned, cause>>

\* next() on the generator: up to the next yield, or to the end of the
\* body and out of the cursor scope.
QueryNext ==
    /\ call.op = "query"
    /\ gen \in {"created", "suspended"}
    /\ LET e == IF gen = "created" THEN cursor_enter(call.fault)
                ELSE [log |-> <<>>, err |-> "", con |-> con,
                      closeit |-> shared = NoCon]
           failing == gen = "created" /\ call.fault = "execute"
           body == IF failing THEN query_body(call.fault, FALSE)
                   ELSE Body(IF gen = "created" THEN <<"execute">> ELSE <<>>,
                             "", 0)
           t == cursor_try(call.fault, body, e.closeit)
       IN  IF e.err # ""
           THEN /\ gen' = "done"
                /\ ret' = Raise(e.err)
                /\ log' = log \o e.log
                /\ con' = e.con
                /\ UNCHANGED <<call, executed, returned>>
           ELSE IF ~failing /\ call.pos < Len(call.rows)
           THEN /\ gen' = "suspended"
                /\ call' = [call EXCEPT !.pos = @ + 1]
                /\ returned' = call.rows[call.pos + 1]
                /\ log' = log \o e.log \o body.log
                /\ con' = e.con
                /\ executed' = <<a_select>>
                /\ UNCHANGED ret
           ELSE /\ gen' = "done"
                /\ ret' = IF t.err = "" THEN Ok(<<>>, <<>>) ELSE Raise(t.err)
                /\ log' = log \o e.log \o t.log
                /\ con' = IF e.closeit THEN "closed" ELSE e.con
                /\ executed' = <<a_select>>
                /\ returned' = PyNone
                /\ UNCHANGED call
    /\ UNCHANGED <<Config, Record, Sharing, table, cause>>

\* The generator is closed or dropped before its end: GeneratorExit at the
\* yield it waits at.
QueryAbandon ==
    /\ call.op = "query"
    /\ gen \in {"created", "suspended"}
    /\ LET t == cursor_try(call.fault, Body(<<>>, "GeneratorExit", 0),
                            shared = NoCon)
       IN  IF gen = "created" THEN UNCHANGED <<log, con>>
           ELSE /\ log' = log \o t.log
                /\ con' = IF shared # NoCon THEN con ELSE "closed"
    /\ gen' = "done"
    /\ UNCHANGED <<Config, Record, call, ret, executed, Sharing, table, returned, cause>>

\* table.paged(**a, page_size=.., current_page=.., params=..)
Paged ==
    /\ call.op = "idle"
    /\ \E a \in PagedArgs, page_size \in PageSizes,
          current_page \in CurrentPages, fault \in PagedFaults :
          \E db \in Dbs(a, table) :
             /\ call' = [op |-> "paged", a |-> a, page_size |-> page_size,
                         current_page |-> current_page, fault |-> fault,
                         db |-> db]
             /\ \E out \in {paged(a, page_size, current_page,
                                   IF a.where = PyNone THEN <<>>
                                   ELSE <<PyInt(9)>>, fault, db)} :
                   Finish(out)
    /\ UNCHANGED <<Config, Record, Sharing, gen>>

\* engine.set_shared_connection(con): self._con = con, self._cur its cursor,
\* whatever was attached before.
SetSharedConnection ==
    /\ call.op = "idle"
    /\ \E c \in Cons : shared' = c
    /\ UNCHANGED <<Config, Record, call, ret, executed, lent, con, log, table,
                   returned, cause, gen>>

\* with engine.use_shared_connection(con): up to the yield.  Another
\* connection than the attached one raises RuntimeError, else the connection
\* is attached and the body of the with-block starts.
UseSharedConnection ==
    /\ call.op = "idle"
    /\ lent = NoScope
    /\ \E c \in Cons :
          /\ call' = [op |-> "use_shared_connection", con |-> c]
          /\ IF shared # NoCon /\ shared # c
             THEN /\ ret' = Raise("RuntimeError")
                  /\ UNCHANGED <<shared, lent>>
             ELSE /\ ret' = Ok(<<>>, <<>>)
                  /\ shared' = c
                  /\ lent' = [con |-> c, before |-> shared]
    /\ UNCHANGED <<Config, Record, executed, con, log, table, returned, cause, gen>>

\* The body of the with-block ends: the generator goes on after its yield,
\* self._con = None and self._cur = None.
ExitScope ==
    /\ call.op = "idle"
    /\ lent # NoScope
    /\ shared' = NoCon
    /\ lent' = NoScope
    /\ UNCHANGED <<Config, Record, call, ret, executed, con, log, table, returned,
                   cause, gen>>

\* The body of the with-block raises: the exception is thrown into the
\* generator at its yield, which is in no try, and the lines after the yield
\* are not run.
RaiseInScope ==
    /\ call.op = "idle"
    /\ lent # NoScope
    /\ lent' = NoScope
    /\ UNCHANGED <<Config, Record, call, ret, executed, shared, con, log, table,
                   returned, cause, gen>>

Next ==
    \/ Sqlparam
    \/ CreateInsertStatement
    \/ CreateUpdateStatement
    \/ CreateSelectSql
    \/ Dynamicquery
    \/ HasPk
    \/ GetPk
    \/ CreateUpsertStatement
    \/ Return

Spec == Init /\ [][Next]_vars

\* The engine of one table with an autonumbered primary key id.
InitEngine ==
    /\ Init
    /\ pk_field = <<"i", "d">>
    /\ pk_autonumber
    /\ paramstyle \in EngineParamstyles

NextEngine ==
    \/ Getattr
    \/ Insert
    \/ Save
    \/ Query
    \/ QueryNext
    \/ QueryAbandon
    \/ SetSharedConnection
    \/ Return

SpecEngine == InitEngine /\ [][NextEngine]_vars

\* The engine with connections shared by set_shared_connection and lent
\* by use_shared_connection, and queries run on them.
NextShared ==
    \/ SetSharedConnection
    \/ UseSharedConnection
    \/ ExitScope
    \/ RaiseInScope
    \/ Query
    \/ QueryNext
    \/ QueryAbandon
    \/ Return

SpecShared == InitEngine /\ [][NextShared]_vars

\* A table of an engine made with any dialect, the caller's included.
InitDialect ==
    /\ pk_field = <<"i", "d">>
    /\ pk_autonumber = TRUE
    /\ paramstyle = "qmark"
    /\ dialect \in Dialects \cup {custom_dialect}
    /\ call = Idle
    /\ ret = NoRet
    /\ executed = <<>>
    /\ shared = NoCon
    /\ lent = NoScope
    /\ con = "none"
    /\ log = <<>>
    /\ table = 0
    /\ returned = PyNone
    /\ cause = NoCause
    /\ gen = "none"
    /\ row = <<>>
    /\ hist = <<>>

NextDialect ==
    \/ CreateSelectSql
    \/ Unshoutcase
    \/ Return

SpecDialect == InitDialect /\ [][NextDialect]_vars

\* A row, set, read and deleted from in both styles.
InitRow ==
    /\ InitDialect
    /\ dialect = sql92_dialect

NextRow ==
    \/ RowSetattr
    \/ RowSetitem
    \/ RowDelattr
    \/ RowDelitem
    \/ RowGetattr
    \/ RowGetitem
    \/ Return

SpecRow == InitRow /\ [][NextRow]_vars

\* The same table, inserted into and read page by page.
NextPaged ==
    \/ Insert
    \/ Paged
    \/ Return

SpecPaged == InitEngine /\ [][NextPaged]_vars

(***************************************************************************)
(* Properties of the statement builders.                                   *)
(***************************************************************************)
\* The lexemes a placeholder starts with, in any paramstyle.
PlaceholderLexemes == {"?", "%s", ":"}

\* The positions of the placeholders of a text, in text order.
PlaceholderPositions(sql) ==
    SelectSeq([k \in 1..Len(sql) |-> k],
              LAMBDA k : sql[k] \in PlaceholderLexemes)

\* The text has x at position k.
HasAt(sql, k, x) == k + Len(x) - 1 <= Len(sql) /\ SubSeq(sql, k, k + Len(x) - 1) = x

IsBuilt == call.op \in {"create_insert_statement", "create_update_statement"}
             /\ ret.ok

\* The field name the i-th bound value belongs to: the WHERE value of an
\* UPDATE belongs to the primary key, any other value to the field of the
\* object that carries it.
BoundName(i) ==
    IF call.op = "create_update_statement" /\ i = Len(ret.params)
    THEN pk_field
    ELSE (CHOOSE f \in {call.obj[k] : k \in 1..Len(call.obj)} :
             f.v = ret.params[i]).k

\* C1: in every SqlStatement create_insert_statement or
\* create_update_statement returns, the text has as many placeholders as
\* params has elements, and the i-th placeholder is the one of the i-th
\* element: its ordinal is i (from zero) under numeric, its name is the
\* name of the field of that value under named.
C1_PlaceholdersMatchParams ==
    IsBuilt =>
      LET pos == PlaceholderPositions(ret.sql)
      IN  /\ Len(pos) = Len(ret.params)
          /\ \A i \in 1..Len(pos) :
               /\ paramstyle = "qmark" => ret.sql[pos[i]] = "?"
               /\ paramstyle \in {"format", "pyformat"} =>
                    ret.sql[pos[i]] = "%s"
               /\ paramstyle = "numeric" =>
                    HasAt(ret.sql, pos[i], <<":">> \o IntStr(i - 1))
               /\ paramstyle = "named" =>
                    HasAt(ret.sql, pos[i], <<":">> \o BoundName(i))

C1_Witness ==
    /\ call.op = "create_update_statement"
    /\ ret.ok
    /\ paramstyle = "numeric"
    /\ Len(ret.params) = 3

\* The text of sql between the first lexeme `open` and the next `close`.
Between(sql, open, close) ==
    LET a == CHOOSE k \in 1..Len(sql) :
                 sql[k] = open /\ \A j \in 1..(k - 1) : sql[j] # open
        b == CHOOSE k \in (a + 1)..Len(sql) :
                 sql[k] = close /\ \A j \in (a + 1)..(k - 1) : sql[j] # close
    IN  SubSeq(sql, a + 1, b - 1)

\* Two names are the same name up to letter case.
SameName(x, y) == Len(x) = Len(y) /\ \A k \in 1..Len(x) :
                     LowerChar(x[k]) = LowerChar(y[k])

\* The items of obj a statement lists: all of them, less the primary key
\* when `drop_pk`.
RECURSIVE Listed(_, _)
Listed(obj, drop_pk) ==
    IF obj = <<>> THEN <<>>
    ELSE IF drop_pk /\ SameName(Head(obj).k, pk_field)
    THEN Listed(Tail(obj), drop_pk)
    ELSE <<Head(obj)>> \o Listed(Tail(obj), drop_pk)

\* C2: an INSERT statement lists the fields of the object in object order
\* and binds their values in the same order; the primary key is left out of
\* both when pk_autonumber is true and kept in both when it is false.
C2_InsertListsFields ==
    (call.op = "create_insert_statement" /\ ret.ok) =>
      LET listed == Listed(call.obj, pk_autonumber)
      IN  /\ Between(ret.sql, "(", ")") = Join(<<", ">>, Keys(listed))
          /\ ret.params = ObjValues(listed)
          /\ Len(PlaceholderPositions(ret.sql)) = Len(listed)

C2_Witness ==
    /\ call.op = "create_insert_statement"
    /\ ret.ok
    /\ ~pk_autonumber
    /\ HasKey(call.obj, pk_field)
    /\ Len(call.obj) = 3

\* The text of sql after its first lexeme x.
After(sql, x) ==
    LET a == CHOOSE k \in 1..Len(sql) :
                 sql[k] = x /\ \A j \in 1..(k - 1) : sql[j] # x
    IN  SubSeq(sql, a + 1, Len(sql))

\* C3: an UPDATE statement has a SET clause of every field of the object
\* but the primary key, in object order, then WHERE pk = placeholder; params
\* are the SET values in that order and then the id, and the placeholder of
\* the primary key has the number of SET columns as its ordinal.
C3_UpdateSetThenPk ==
    (call.op = "create_update_statement" /\ ret.ok) =>
      LET listed == Listed(call.obj, TRUE)
          n == Len(listed)
          id == IF call.id.t = "none" THEN GetItem(call.obj, pk_field)
                ELSE call.id
      IN  /\ Between(ret.sql, "SET", "WHERE") =
               <<" ">> \o Join(<<", ">>,
                   [k \in 1..n |-> listed[k].k \o <<" ", "=", " ">>
                        \o sqlparam(paramstyle, PyStr(listed[k].k),
                                    PyInt(k - 1)).sql]) \o <<" ">>
          /\ After(ret.sql, "WHERE") =
               <<" ">> \o pk_field \o <<" ", "=", " ">>
                  \o sqlparam(paramstyle, PyStr(pk_field), PyInt(n)).sql
          /\ ret.params = Append(ObjValues(listed), id)
          /\ ret.params[Len(ret.params)] = id

C3_Witness ==
    /\ call.op = "create_update_statement"
    /\ ret.ok
    /\ paramstyle = "named"
    /\ call.id.t = "int"
    /\ \E k \in 1..Len(call.obj) :
          call.obj[k].k # pk_field /\ SameName(call.obj[k].k, pk_field)

(***************************************************************************)
(* Properties of create_select_sql.                                        *)
(***************************************************************************)
IsSelect == call.op = "create_select_sql" /\ ret.ok

\* How many times the lexeme x occurs in the text.
Count(sql, x) == Cardinality({k \in 1..Len(sql) : sql[k] = x})

\* The position of the first lexeme x of the text; 0 when it has none.
Pos(sql, x) ==
    IF \E k \in 1..Len(sql) : sql[k] = x
    THEN CHOOSE k \in 1..Len(sql) : sql[k] = x /\ \A j \in 1..(k - 1) : sql[j] # x
    ELSE 0

\* A clause argument the caller left out or gave empty.
Absent(v) == v.t = "none" \/ (v.t = "str" /\ v.s = <<>>)
               \/ (v.t \in {"tuple", "list"} /\ v.q = <<>>)

\* The text of a columns/groupby/orderby argument: the string, or the
\* elements of the sequence joined with ", ".
RECURSIVE Joined(_)
Joined(v) ==
    IF v.t = "str" THEN v.s
    ELSE IF v.t \in {"tuple", "list"}
    THEN IF v.q = <<>> THEN <<>>
         ELSE IF Len(v.q) = 1 THEN v.q[1].s
         ELSE v.q[1].s \o <<", ">> \o Joined([v EXCEPT !.q = Tail(v.q)])
    ELSE <<>>

\* The text has no stray blank: none at either end, no two in a row.
NoStrayBlank(sql) ==
    /\ sql[1] # " "
    /\ sql[Len(sql)] # " "
    /\ \A k \in 1..(Len(sql) - 1) : ~(sql[k] = " " /\ sql[k + 1] = " ")

\* The clause `keyword text` is in the SQL once when the argument is
\* present, and its keyword is not in the SQL when the argument is absent.
ClauseOnce(sql, keyword, present, text) ==
    /\ Count(sql, keyword) = IF present THEN 1 ELSE 0
    /\ present => HasAt(sql, Pos(sql, keyword) - 1,
                        <<" ", keyword, " ">> \o text)

\* The keywords of the text that are there come in the given order.
InOrder(sql, keywords) ==
    \A j, k \in 1..Len(keywords) :
       (j < k /\ Pos(sql, keywords[j]) > 0 /\ Pos(sql, keywords[k]) > 0)
          => Pos(sql, keywords[j]) < Pos(sql, keywords[k])

EndsWith(sql, x) == HasAt(sql, Len(sql) - Len(x) + 1, x)

HasQuoteOrSemicolon(v) ==
    Contains(Joined(v), ";") \/ Contains(Joined(v), "'")

\* C6: create_select_sql raises, and gives no SQL, when columns, groupby
\* or orderby, a string or a sequence joined with ", ", has a ';' or a "'".
C6_SelectRejectsInjection ==
    (/\ call.op = "create_select_sql"
     /\ \/ HasQuoteOrSemicolon(call.a.columns)
        \/ HasQuoteOrSemicolon(call.a.groupby)
        \/ HasQuoteOrSemicolon(call.a.orderby))
      => (~ret.ok /\ ret.sql = <<>> /\ executed = <<>>)

C6_Witness ==
    /\ call.op = "create_select_sql"
    /\ ~HasQuoteOrSemicolon(call.a.columns)
    /\ ~HasQuoteOrSemicolon(call.a.orderby)
    /\ call.a.groupby.t = "tuple"
    /\ HasQuoteOrSemicolon(call.a.groupby)
    /\ ~ret.ok

(***************************************************************************)
(* Properties of sqlparam.                                                 *)
(***************************************************************************)
\* A name sqlparam takes: None, or a string without ; and '.
ValidName(name) ==
    name.t = "none" \/ (name.t = "str" /\ ~Contains(name.s, ";")
                          /\ ~Contains(name.s, "'"))

\* C7: for a valid name and an int index, sqlparam returns '?' under qmark,
\* ':' and the index under numeric, ':' and the name under named, and '%s'
\* under format.
C7_SqlparamPerStyle ==
    (/\ call.op = "sqlparam"
     /\ call.index.t = "int"
     /\ ValidName(call.name))
      => /\ call.ps = "qmark" => (ret.ok /\ ret.sql = <<"?">>)
         /\ call.ps = "numeric" =>
              (ret.ok /\ ret.sql = <<":">> \o IntStr(call.index.i))
         /\ (call.ps = "named" /\ call.name.t = "str") =>
              (ret.ok /\ ret.sql = <<":">> \o call.name.s)
         /\ call.ps = "format" => (ret.ok /\ ret.sql = <<"%s">>)

C7_Witness ==
    /\ call.op = "sqlparam"
    /\ call.ps = "numeric"
    /\ call.index = PyInt(2)
    /\ call.name = PyStr(<<"I", "D">>)
    /\ ret.ok

\* C8: sqlparam raises, and gives no placeholder, under every paramstyle
\* when the name has a ';' or a "'".
C8_SqlparamRejectsName ==
    (/\ call.op = "sqlparam"
     /\ call.name.t = "str"
     /\ (Contains(call.name.s, ";") \/ Contains(call.name.s, "'")))
      => (~ret.ok /\ ret.sql = <<>>)

C8_Witness ==
    /\ call.op = "sqlparam"
    /\ call.ps = "qmark"
    /\ call.index = PyInt(0)
    /\ Contains(call.name.s, "'")
    /\ ~ret.ok

\* C9, as claimed: sqlparam raises when the index is not a non-negative
\* integer, a negative int like a non-int.
C9_RejectsNegativeIndex ==
    (/\ call.op = "sqlparam"
     /\ ~(call.index.t \in {"int", "bool"} /\ call.index.i >= 0))
      => ~ret.ok

\* C9, amended: sqlparam raises when the index is not an int; a negative int
\* is an index like any other, and numeric renders it after the ':'.
C9_RejectsNonIntIndexOnly ==
    call.op = "sqlparam" =>
      /\ call.index.t \notin {"int", "bool"} => ~ret.ok
      /\ (/\ call.index.t = "int"
          /\ call.index.i < 0
          /\ ValidName(call.name)
          /\ call.ps \in {"qmark", "numeric", "format", "pyformat"})
           => /\ ret.ok
              /\ call.ps = "numeric" =>
                   ret.sql = <<":", "-">> \o NatDigits(0 - call.index.i)

C9_Witness ==
    /\ call.op = "sqlparam"
    /\ call.ps = "numeric"
    /\ call.index = PyInt(-1)
    /\ ret.ok
    /\ ret.sql = <<":", "-", "1">>

(***************************************************************************)
(* Properties of dynamicquery.                                             *)
(***************************************************************************)
\* The keyword is a WHERE filter: no select part, no alias, not params.
IsFilterKeyword(key) ==
    /\ Lower(key) \notin {K_columns, K_distinct, K_where, K_groupby, K_having,
                          K_orderby, K_limit}
    /\ Lower(key) \notin {K_column, K_select, K_top}
    /\ Lower(key) # K_params

HasFilterKeyword(kwargs) ==
    \E k \in 1..Len(kwargs) : IsFilterKeyword(kwargs[k].k)

\* The values the call gives for where, under any spelling of the keyword.
WhereValues(kwargs) ==
    {kwargs[k].v : k \in {j \in 1..Len(kwargs) : Lower(kwargs[j].k) = K_where}}

FilterItems(kwargs) ==
    LET f == SelectSeq(kwargs, LAMBDA it : IsFilterKeyword(it.k))
    IN  [k \in 1..Len(f) |-> [k |-> Lower(f[k].k), v |-> f[k].v]]

\* The filters with one item per lower-cased name: at the place of the first
\* keyword of that name, with the value of the last one.
MergedFilters(kwargs) ==
    LET f == FilterItems(kwargs)
        firsts == SelectSeq([k \in 1..Len(f) |-> k],
                            LAMBDA k : \A j \in 1..(k - 1) : f[j].k # f[k].k)
        last(k) == CHOOSE j \in 1..Len(f) :
                      f[j].k = f[k].k /\ \A m \in (j + 1)..Len(f) : f[m].k # f[k].k
    IN  [n \in 1..Len(firsts) |->
            [k |-> f[firsts[n]].k, v |-> f[last(firsts[n])].v]]

\* a is b less some of its elements, the rest in b's order.
RECURSIVE IsSubseq(_, _)
IsSubseq(a, b) ==
    IF a = <<>> THEN TRUE
    ELSE IF b = <<>> THEN FALSE
    ELSE IF Head(a) = Head(b) THEN IsSubseq(Tail(a), Tail(b))
    ELSE IsSubseq(a, Tail(b))

\* The values the call gives with the params keyword.
ParamsValues(kwargs) ==
    LET p == SelectSeq(kwargs, LAMBDA it : Lower(it.k) = K_params)
    IN  IF p = <<>> THEN <<>> ELSE p[Len(p)].v.q

\* The value the call gives for a select part or alias, under any spelling.
Given(kwargs, key, value) ==
    /\ \E k \in 1..Len(kwargs) : Lower(kwargs[k].k) = key
    /\ \A k \in 1..Len(kwargs) : Lower(kwargs[k].k) = key => kwargs[k].v = value

\* The SELECT of the call has the filters f as its WHERE clause, numbered
\* from zero over f alone, and binds their values in f's order; orderby and
\* top of a list query are the ORDER BY and the limit of the SELECT.
FiltersApplied(f) ==
    /\ f # <<>> =>
         Between(ret.sql, "WHERE", "ORDER BY") =
           <<" ">> \o Join(<<" AND ">>,
               [k \in 1..Len(f) |-> f[k].k \o <<" ", "=", " ">>
                    \o sqlparam(paramstyle, PyStr(f[k].k), PyInt(k - 1)).sql])
             \o <<" ">>
    /\ IsSubseq([k \in 1..Len(f) |-> f[k].v], ret.params)
    /\ Len(ret.params) = Len(f) + Len(ParamsValues(call.kwargs))
    /\ Len(PlaceholderPositions(ret.sql)) >= Len(f)
    /\ (found(Lower(call.method_name)) = <<>>) =>
         /\ Given(call.kwargs, K_top, PyInt(5)) =>
              \E k \in 1..Len(ret.sql) :
                 HasAt(ret.sql, k, <<dialect.keywords.limit, " ", "5">>)
         /\ Given(call.kwargs, K_orderby, PyStr(<<"n">>)) =>
              \E k \in 1..Len(ret.sql) :
                 HasAt(ret.sql, k, <<"ORDER BY", " ", "n">>)

AggregateNames ==
    {<<"c", "o", "u", "n", "t">>, <<"s", "u", "m">>, <<"m", "a", "x">>,
     <<"m", "i", "n">>, <<"a", "v", "g">>}

AggregateFunction(name) ==
    CASE name = <<"c", "o", "u", "n", "t">> -> "COUNT"
      [] name = <<"s", "u", "m">> -> "SUM"
      [] name = <<"m", "a", "x">> -> "MAX"
      [] name = <<"m", "i", "n">> -> "MIN"
      [] OTHER -> "AVG"

\* C12, as claimed: a dynamic query named count, sum, max, min or avg is an
\* aggregate query: the column list of its SELECT is the aggregate function
\* applied to the columns, and the SELECT is the one statement executed.
C12_AggregateNameGivesAggregate ==
    (/\ call.op = "dynamicquery"
     /\ Lower(call.method_name) \in AggregateNames
     /\ ret.ok)
      => /\ Contains(Between(ret.sql, "SELECT", "FROM"),
                     AggregateFunction(Lower(call.method_name)))
         /\ Len(executed) = 1

\* The prefixes of the names of single-result queries.
SinglePrefixes ==
    {<<"s", "i", "n", "g", "l", "e">>, <<"o", "n", "e">>,
     <<"f", "i", "r", "s", "t">>, <<"f", "e", "t", "c", "h", "o", "n", "e">>,
     <<"l", "a", "s", "t">>}

IsSingleName(name) == \E p \in SinglePrefixes : StartsWith(Lower(name), p)

IsLastName(name) == StartsWith(Lower(name), <<"l", "a", "s", "t">>)

\* The orderby the call gives, when it gives one that is not empty.
GivenOrderby(kwargs) ==
    {kwargs[k].v : k \in {j \in 1..Len(kwargs) :
                            /\ Lower(kwargs[j].k) = K_orderby
                            /\ Truthy(kwargs[j].v)}}

\* C13, as claimed: the SELECT of a single-result dynamic query has limit 1
\* and is ordered by the primary key when the caller gave no orderby, by the
\* caller's orderby otherwise, with DESC after it when the prefix is last.
C13_SingleResultOrderAndLimit ==
    (/\ call.op = "dynamicquery"
     /\ IsSingleName(call.method_name)
     /\ ret.ok)
      => LET given == GivenOrderby(call.kwargs)
             base == IF given = {} THEN pk_field
                     ELSE Str(CHOOSE v \in given : TRUE)
             direction == IF IsLastName(call.method_name)
                          THEN <<" ", "D", "E", "S", "C">> ELSE <<>>
             expected == <<" ">> \o base \o direction
             tail == After(ret.sql, "ORDER BY")
         IN  /\ Len(tail) >= Len(expected)
             /\ SubSeq(tail, 1, Len(expected)) = expected
             /\ Len(tail) > Len(expected) => tail[Len(expected) + 1] = " "
             /\ \E k \in 1..Len(ret.sql) :
                   HasAt(ret.sql, k, <<dialect.keywords.limit, " ", "1">>)

(***************************************************************************)
(* Properties of the operations that reach the database.                   *)
(***************************************************************************)
\* The log has the driver call x.
Logged(x) == \E k \in 1..Len(log) : log[k] = x

\* A driver call of the operation raised.
DriverRaised ==
    \E x \in {"connect:raise", "cursor:raise", "execute:raise",
              "fetchone:raise", "commit:raise"} : Logged(x)

C15_UndefinedNamesAreResolved ==
    call.op = "getattr" =>
      /\ ret.err # "AttributeError"
      /\ (Logged("execute") /\ ~DriverRaised) =>
           /\ ret.ok
           /\ returned = IF ~IsSingleName(call.name) THEN PyList(call.rows)
                         ELSE IF call.rows # <<>> THEN call.rows[1]
                         ELSE PyNone

\* C16: an exception raised while a dynamically resolved call is served
\* (for its arguments, while the statement is built, or by the driver)
\* reaches the caller as the RuntimeError of the dispatch, which names the
\* method called and has the exception as its cause; none reaches the caller
\* as it was raised.
C16_DispatchErrorsAreWrapped ==
    (call.op = "getattr" /\ _re_dynamic_methods_match(call.name)) =>
      /\ ~ret.ok =>
           /\ ret.err = "RuntimeError"
           /\ cause.kind \notin {"", "RuntimeError"}
           /\ cause.name = call.name
      /\ call.args # <<>> => (~ret.ok /\ cause.kind = "ValueError")
      /\ DriverRaised => (~ret.ok /\ cause.kind = DriverError)

C16_Witness ==
    /\ call.op = "getattr"
    /\ call.name = <<"f", "i", "n", "d", "_", "b", "y">>
    /\ Logged("execute:raise")
    /\ ret.err = "RuntimeError"
    /\ cause = [kind |-> DriverError, name |-> call.name]

\* The operation is over: it has returned or raised, and a generator it
\* made has run to its end or was dropped.
Finished == call.op \in {"getattr", "insert", "save", "query"}
              /\ gen \in {"none", "done"}

\* C17, as claimed: without a shared connection, an operation that is over
\* and whose connect() succeeded has closed its connection, as the last
\* thing it did with the driver: after a body that ended well, after a
\* raising execute, commit or cursor(), and after the generator of query
\* ended or was dropped.
C17_OpenedConnectionIsClosed ==
    (shared = NoCon /\ Finished /\ Logged("connect")) =>
      /\ con = "closed"
      /\ log[Len(log)] = "close"

\* A statement handed to execute raised, and the scope rolled back after
\* it, committed nothing and raised.
RolledBack ==
    /\ \A k \in 1..Len(log) :
          log[k] = "execute:raise" =>
            \E j \in (k + 1)..Len(log) : log[j] = "rollback"
    /\ ~Logged("commit")
    /\ ~Logged("commit:raise")
    /\ ~ret.ok

\* C18: when a statement executed in a cursor scope raises, the scope calls
\* rollback after it, calls no commit and the exception reaches the caller;
\* the table has the rows it had before the operation, those of a failed
\* insert too.
C18_FailedStatementRollsBack ==
    [][(~Logged("execute:raise") /\ Logged("execute:raise")')
         => (RolledBack' /\ table' = table)]_vars

C18_Witness ==
    /\ call.op = "insert"
    /\ \E k \in 1..Len(log) : log[k] = "execute" /\ log[k + 1] = "execute:raise"
    /\ Logged("rollback")
    /\ ~Logged("commit")
    /\ ret.err = DriverError

\* The INSERT of the dialect returns the new id itself.
InlineReturning ==
    \/ Contains(dialect.insert_sql, "RETURNING")
    \/ Contains(dialect.insert_sql, "OUTPUT INSERTED.[")

\* C19, as claimed: an insert that succeeds returns the new primary key when
\* the dialect gives it (by the INSERT itself, else by the statement for the
\* last inserted id, run after the INSERT) and a row was fetched; it returns
\* None, and no number, when the dialect gives neither or no row was
\* fetched.
C19_InsertReturnsIdOrNone ==
    (call.op = "insert" /\ ret.ok) =>
      /\ InlineReturning => Len(executed) = 1
      /\ (~InlineReturning /\ dialect.get_last_inserted_id # <<>>) =>
           /\ Len(executed) = 2
           /\ executed[2].sql = dialect.get_last_inserted_id
      /\ returned = IF /\ InlineReturning \/ dialect.get_last_inserted_id # <<>>
                       /\ Logged("fetchone")
                       /\ call.fetched # PyNone
                    THEN call.fetched.q[1]
                    ELSE PyNone

\* The statements save builds for its arguments.
SaveStatements(args) ==
    [k \in 1..Len(args) |->
        IF \E j \in 1..Len(args[k]) : args[k][j].k = pk_field
        THEN create_update_statement(args[k], PyNone)
        ELSE create_insert_statement(args[k])]

\* C20, as claimed: save builds one statement per object, an UPDATE for an
\* object with the primary key field and an INSERT otherwise, and executes
\* them in the order of the arguments in one connection scope; no rollback
\* is issued, whether the statements all run or one of them fails.
C20_SaveExecutesInOrderNoRollback ==
    (/\ call.op = "save"
     /\ \A k \in 1..Len(call.args) : SaveStatements(call.args)[k].ok
     /\ call.fault \notin {"connect", "cursor"})
      => /\ executed = [k \in 1..Len(call.args) |->
                          [sql |-> SaveStatements(call.args)[k].sql,
                           params |-> SaveStatements(call.args)[k].params]]
         /\ ~Logged("rollback")
         /\ shared = NoCon => Cardinality({k \in 1..Len(log) : log[k] = "connect"}) = 1

(***************************************************************************)
(* Properties of paged.                                                    *)
(***************************************************************************)
\* A paged call that returned its result.
PagedReturned == call.op = "paged" /\ ret.ok

\* How many rows the ordered result of a paged call has: the groups when the
\* call groups, the rows its filter keeps otherwise.
ResultSize == IF call.a.groupby # PyNone THEN call.db.g ELSE call.db.n

\* The window of page k of size p, as the dialect of the table writes it.
WindowText(p, k) ==
    LET start == IntStr((k - 1) * p)
    IN  CASE dialect.dialect = "mssql" ->
               <<"OFFSET", " ">> \o start \o <<" ", "ROWS FETCH NEXT", " ">>
                 \o IntStr(p) \o <<" ", "ROWS ONLY">>
          [] dialect.dialect \in {"mariadb", "sqlite3"} ->
               <<"LIMIT", " ">> \o start \o <<", ">> \o IntStr(p)
          [] OTHER ->
               <<"LIMIT", " ">> \o IntStr(p) \o <<" ", "OFFSET", " ">> \o start

\* The records from..to of the ordered result, none when to < from.
RecordsFromTo(from, to) ==
    [j \in 1..(IF to >= from THEN to - from + 1 ELSE 0) |-> Row(from + j - 1)]

CeilDiv(a, b) == (a + b - 1) \div b

\* C22, as claimed: the result of paged carries total_pages =
\* ceil(total_records / page_size) alongside total_records, page_size,
\* current_page and records.
C22_ResultCarriesTotalPages ==
    PagedReturned =>
      /\ \A key \in {"total_records", "total_pages", "page_size",
                     "current_page", "records"} : HasKey(returned.q, <<key>>)
      /\ GetItem(returned.q, <<"total_pages">>)
           = PyInt(CeilDiv(GetItem(returned.q, <<"total_records">>).i,
                           call.page_size))

\* C28, as claimed: the count statement and the page statement of a paged
\* call select over the same rows: total_records is the number of rows the
\* page statement gives without its window, whatever distinct, where,
\* groupby and having are.
C28_CountIsThePagedRowSet ==
    PagedReturned =>
      GetItem(returned.q, <<"total_records">>)
        = PyInt(DbSelected(executed[2].sql, call.db))

(***************************************************************************)
(* Properties of the primary-key lookups.                                  *)
(***************************************************************************)
\* The object has a field that is the primary key but for letter case.
NamesPk(obj) == \E k \in 1..Len(obj) : Lower(obj[k].k) = Lower(pk_field)

\* C23, as claimed: has_pk, get_pk, create_update_statement and
\* create_upsert_statement all take an object field that differs from
\* pk_field only in letter case for the primary key, as the column filter of
\* create_insert_statement does: has_pk says so, get_pk gives a value, an
\* update without an id finds its id, and the upsert is an UPDATE exactly
\* when the object names the key.
C23_PkFoundIgnoringCase ==
    /\ call.op = "has_pk" => returned = PyBool(NamesPk(call.obj))
    /\ (call.op = "get_pk" /\ NamesPk(call.obj)) => returned # PyNone
    /\ (call.op = "create_update_statement" /\ call.id = PyNone
          /\ NamesPk(call.obj)) => ret.err # "KeyError"
    /\ (call.op = "create_upsert_statement" /\ ret.ok) =>
          (NamesPk(call.obj) <=> ret.sql[1] = "UPDATE")

(***************************************************************************)
(* Properties of the numeric placeholders of dynamicquery.                 *)
(***************************************************************************)
\* C30, as claimed: in dynamicquery under the numeric paramstyle the ordinal
\* in the placeholder of each synthesized predicate is the position of that
\* predicate's value in the bound parameter tuple, in whatever order the
\* params keyword and the filter keywords are passed: the n-th predicate,
\* numbered n - 1, finds its value as the n-th parameter.
C30_OrdinalIsPositionOfValue ==
    (call.op = "dynamicquery" /\ ret.ok /\ paramstyle = "numeric") =>
      LET f == MergedFilters(call.kwargs)
      IN  \A n \in 1..Len(f) :
             /\ n <= Len(ret.params)
             /\ ret.params[n] = f[n].v

(***************************************************************************)
(* Properties of the dialects.                                             *)
(***************************************************************************)
\* The lexemes of the dialects that have upper-case letters.
ShoutLexemes ==
    {"SELECT", "DISTINCT", "FROM", "WHERE", "GROUP BY", "HAVING", "ORDER BY",
     "LIMIT", "TOP", "FETCH FIRST", "COUNT", "MIN", "MAX", "AVG",
     "INSERT INTO", "VALUES", "OUTPUT INSERTED.[", "RETURNING", "AS newid",
     "UPDATE", "SET", "DELETE FROM", "SELECT LAST_INSERT_ID()",
     "SELECT last_insert_rowid()", "SELECT COUNT(*) FROM (",
     "SELECT COUNT(*) c FROM (", "OFFSET", "ROWS FETCH NEXT", "ROWS ONLY"}

\* out is src with every string leaf in lower case: the same keys in the
\* same order, the same nesting, the same non-string values, and no string
\* of it, at any depth of dicts and tuples, keeps an upper-case lexeme.
RECURSIVE IsLowerCaseOf(_, _)
IsLowerCaseOf(out, src) ==
    CASE src.t = "str" ->
           /\ out.t = "str" /\ Len(out.s) = Len(src.s)
           /\ \A k \in 1..Len(src.s) :
                 /\ out.s[k] \notin ShoutLexemes
                 /\ src.s[k] \notin ShoutLexemes => out.s[k] = src.s[k]
      [] src.t = "dict" ->
           /\ out.t = "dict" /\ Len(out.q) = Len(src.q)
           /\ \A k \in 1..Len(src.q) :
                 /\ out.q[k].k = src.q[k].k
                 /\ IsLowerCaseOf(out.q[k].v, src.q[k].v)
      [] src.t \in {"tuple", "list"} ->
           /\ out.t = src.t /\ Len(out.q) = Len(src.q)
           /\ \A k \in 1..Len(src.q) : IsLowerCaseOf(out.q[k], src.q[k])
      [] OTHER -> out = src

\* C24, as claimed: the lower-case form of a dialect has every string leaf
\* lower-cased (the top-level templates, the keywords and the strings in
\* the paging pair) and keeps keys, nesting and non-string values.
C24_EveryStringLeafLowerCased ==
    call.op = "unshoutcase" => IsLowerCaseOf(returned, call.dialect)

C25_AttachedIsNeverReplaced ==
    [][shared # NoCon => shared' \in {shared, NoCon}]_vars

\* C29, as claimed: when a use_shared_connection scope ends, by the end of
\* its body or by an exception in it, the engine is left with no shared
\* connection if the scope found none, and with the connection that
\* set_shared_connection had attached before if the scope was entered on
\* that same connection.
C29_ScopeEndRestores ==
    [][(lent # NoScope /\ lent' = NoScope /\ shared = lent.con)
          => shared' = lent.before]_vars

(***************************************************************************)
(* Properties of DbRow.                                                    *)
(***************************************************************************)
IsSet(op) == op.op \in {"row_setattr", "row_setitem"}

\* The place in the history h of the last set or delete of a name, 0 when
\* there is none.
LastOp(h, name) ==
    IF \E j \in 1..Len(h) : h[j].name = name
    THEN CHOOSE j \in 1..Len(h) :
            h[j].name = name /\ \A m \in (j + 1)..Len(h) : h[m].name # name
    ELSE 0

\* By the history h the name is a key: the last thing done to it is a set.
IsKeyBy(h, name) == LastOp(h, name) > 0 /\ IsSet(h[LastOp(h, name)])

\* The place in h where the name was inserted: its first set since its last
\* delete.
InsertedAt(h, name) ==
    CHOOSE j \in 1..Len(h) :
       /\ h[j].name = name /\ IsSet(h[j])
       /\ \A m \in j..Len(h) : h[m].name = name => IsSet(h[m])
       /\ \A m \in 1..(j - 1) :
             (h[m].name = name /\ IsSet(h[m])) =>
                \E d \in (m + 1)..(j - 1) : h[d].name = name /\ ~IsSet(h[d])

\* The history less the operation that just ended, if it is in it.
Before == IF call.op \in {"row_setattr", "row_setitem", "row_delattr",
                          "row_delitem"} /\ ret.ok
          THEN SubSeq(hist, 1, Len(hist) - 1) ELSE hist

\* What the claim says of the names in S: a read in either style succeeds
\* exactly for a key and gives the last value set by either style, a read
\* or delete of a missing name raises AttributeError in attribute style and
\* KeyError in key style, and the keys are in insertion order.
RowAgrees(S) ==
    /\ (call.op \in {"row_getattr", "row_getitem"} /\ call.name \in S) =>
         /\ ret.ok <=> IsKeyBy(hist, call.name)
         /\ ret.ok => returned = hist[LastOp(hist, call.name)].v
    /\ (call.op \in {"row_delattr", "row_delitem"} /\ call.name \in S) =>
         (ret.ok <=> IsKeyBy(Before, call.name))
    /\ (call.op \in {"row_getattr", "row_delattr"} /\ call.name \in S
          /\ ~ret.ok) => ret.err = "AttributeError"
    /\ (call.op \in {"row_getitem", "row_delitem"} /\ call.name \in S
          /\ ~ret.ok) => ret.err = "KeyError"
    /\ \A name \in RowNames : HasKey(row, name) <=> IsKeyBy(hist, name)
    /\ \A j, k \in 1..Len(row) :
          j < k <=> InsertedAt(hist, row[j].k) < InsertedAt(hist, row[k].k)

\* C26, as claimed: after any sequence of attribute-style and key-style sets
\* and deletes on a row, attribute access and key access agree for every
\* name: a name is readable as an attribute exactly when it is a key, both
\* give the last value set by either style, a missing name fails with
\* AttributeError in attribute style and KeyError in key style, and key
\* order is insertion order.
C26_AttributeAndKeyAgree == RowAgrees(RowNames)

\* C26, amended: the same for every name that OrderedDict has no attribute
\* of its own for.
C26_AgreeButForClassAttributes == RowAgrees(RowNames \ ClassAttributes)

\* A name set by attribute, deleted by key and set again by key is read as
\* an attribute.
C26_Witness ==
    /\ call.op = "row_getattr" /\ ret.ok /\ returned = PyInt(2)
    /\ Len(hist) = 3 /\ hist[1].op = "row_setattr" /\ hist[1].name = call.name
    /\ hist[2].op = "row_delitem" /\ hist[2].name = call.name
    /\ hist[3].op = "row_setitem" /\ hist[3].name = call.name

====
